---- MODULE Spec2Model ----
(***************************************************************************)
(* Model of the school-platform synchronisation layer.                     *)
(*                                                                         *)
(* Three implementations of the write mirror exist in the repository and   *)
(* are modelled side by side, selected by the variable impl:               *)
(*   "service" : class SyncService            (sync-service module)        *)
(*   "loader"  : object SyncService of the IIFE in assets/js/sync-loader.js*)
(*   "adapter" : the StorageAdapter shim over window.dataService           *)
(*                                                                         *)
(* JavaScript runs on one event loop: an async function runs without       *)
(* interruption up to its next await of a remote call.  Every action below *)
(* is one such uninterrupted segment; a record of tasks holds the position *)
(* of every suspended async function.                                      *)
(***************************************************************************)
EXTENDS Integers, Sequences, FiniteSets, TLC

(***************************************************************************)
(* Bounds of the model.                                                    *)
(***************************************************************************)
MaxWrites == 2
MaxReloads == 1       \* authStateChanged events and manual syncs together
MaxTasks == 2
MaxPushes == 2
MaxNotes == 1
MaxFullSyncs == 1
MaxDataCalls == 2     \* calls of the Supabase DataService
MaxIds == 3           \* entries of existingIds
MaxSyncCalls == 2     \* remote calls of DataSync
MaxAutoSyncs == 2     \* calls of DataSync.autoSync
MaxApiCalls == 3      \* calls of storeUserData and getUserData

(***************************************************************************)
(* Values.  localStorage holds strings; Absent is getItem's null.          *)
(***************************************************************************)
Absent == "<absent>"
EmptyObj == "{}"
Vals == {EmptyObj, "A", "B"}
\* a stored text that JSON.parse rejects
Malformed == "{oops"
NoUser == "<nouser>"
Users == {"u1", "u2"}
Owner == "u1"            \* the user of a session with one user
NoTimer == [key |-> Absent, value |-> Absent]

storageKeys == <<"schoolPlatform_classRecords", "schoolPlatform_studentProfiles">>

Keys == {storageKeys[i] : i \in 1..Len(storageKeys)}

\* other localStorage keys the pages use: a per-class assessment
\* configuration and the AuthGuard's session entry
ConfigKey == "schoolPlatform_assessmentConfig_c1"
SessionKey == "userSession"
\* a key of the application with the platform's prefix that no mirror knows
SettingsKey == "schoolPlatform_settings"
LocalKeys == Keys \cup {ConfigKey, SessionKey, SettingsKey}

TaskIds == 1..MaxTasks
PushIds == 1..MaxPushes

VARIABLES
    impl,           \* which sync service the page carries
    authUser,       \* what supabase.auth.getUser() answers now
    local,          \* localStorage
    remote,         \* table user_data: remote[u][k], Absent = no row
    isEnabled, isInitialized, syncInProgress,
    autoSync,       \* localStorage.setItem has been wrapped by enableAutoSync
    shim,           \* localStorage.setItem has been wrapped by the StorageAdapter
    dsLast,         \* last set operation invoked on window.dataService
    listening,      \* loader: the authStateChanged listener is registered
    subscriptions,  \* number of realtime channel subscriptions created
    syncTimeout,    \* the single debounce timer this.syncTimeout
    tasks,          \* suspended handler runs (load / authStateChanged / manual)
    pushes,         \* syncToSupabase calls in flight
    notes,          \* realtime notifications on their way to the page
    nNotes,         \* number of realtime notifications sent so far
    dataLoaded,     \* number of 'dataLoaded' events dispatched
    cache,          \* the local DataService's cache Map
    session,        \* sessionStorage holds the entry 'currentUser'
    currentUser,    \* currentUser of the page's AuthService / AuthGuard
    page,           \* "app": a protected page; "auth": the sign-in page
    out,            \* the signOut call in progress and the path it took
    pageLoaded,     \* the load event has happened
    \* history variables, read only by the properties
    nWrites, nAuthEvents, nManual,
    lastWritten,    \* last value the application wrote to each key
    lastCall,       \* the last timer-driven syncToSupabase call
    settled,        \* last settled push
    merged,         \* last finished loadFromSupabase run
    full,           \* fullSync() calls made and the last one that returned
    facade,         \* the last two calls of the local DataService facade
    ds,             \* Supabase DataService: isInitialized and the call that waits
    tables,         \* its tables: tables[u][t], Absent = no rows of user u
    dsOut,          \* its calls so far and how the last one ended
    ids,            \* generateNextStudentId: its argument and what it returned
    storage,        \* localStorage as DataSync reads it: the text under each key
    userData,       \* the one-row-per-user table user_data with its data column
    dataSync,       \* the DataSync object and its calls
    api,            \* SchoolPlatformAPI: the call in progress and the calls made
    failures,       \* a request was answered with a failure of the network or service
    burst,          \* the run of application writes the pending timer stands for
    lost,           \* keys whose last application write had its push fail
    midFlight,      \* keys last written while a push for the key was in flight
    crossed,        \* keys whose pending push saw a write to another key
    lastInit,       \* the last answer of initialize()'s user lookup
    lastOp          \* the last write or removal the application made

vars == <<impl, authUser, local, remote, isEnabled, isInitialized,
          syncInProgress, autoSync, shim, dsLast, listening, subscriptions, syncTimeout,
          tasks, pushes, notes, nNotes, dataLoaded, cache, session, currentUser, page,
          out, pageLoaded, nWrites, nAuthEvents,
          nManual, lastWritten, lastCall, settled, merged, full, facade, ds,
          tables, dsOut, ids, storage, userData, dataSync, api,
          failures, burst,
          lost, midFlight, crossed, lastInit, lastOp>>

(***************************************************************************)
(* Pure helpers of the merge.                                              *)
(***************************************************************************)
\* JavaScript truthiness of a string-or-null
Truthy(x) == x # Absent /\ x # ""

\* !localData || localData === '{}' || localData === '[]'
IsEmptyData(x) == ~Truthy(x) \/ x = "{}" \/ x = "[]"

\* const hasServerData = data && data.length > 0
hasServerData(data) == \E k \in Keys : data[k] # Absent

\* this.storageKeys.some(key => localData && localData !== '{}' && ...)
localDataExists(loc) ==
    \E k \in Keys : Truthy(loc[k]) /\ loc[k] \notin {"{}", "[]", "null"}

\* serverDataMap[item.data_key] = item.data_value, for truthy values only
serverDataMap(data) == [k \in Keys |-> IF Truthy(data[k]) THEN data[k] ELSE Absent]

NoData == [k \in Keys |-> Absent]
NoLocal == [k \in LocalKeys |-> Absent]

FreeTask == [pc |-> "free", kind |-> "none", user |-> NoUser, data |-> NoData,
             preLocal |-> NoLocal, i |-> 0, loadCount |-> 0]
FreePush == [pc |-> "free", key |-> Absent, data |-> Absent, caller |-> 0,
             user |-> NoUser, timer |-> FALSE]
NoMerge == [ok |-> FALSE, ran |-> FALSE, user |-> NoUser, data |-> NoData,
            preLocal |-> NoLocal, fetched |-> FALSE]
NoFull == [n |-> 0, ran |-> FALSE, result |-> FALSE, preLocal |-> NoLocal]
NoSettle == [key |-> Absent, data |-> Absent, result |-> "none",
             error |-> FALSE, kept |-> TRUE]
NotCached == [json |-> Absent]
NoCache == [k \in LocalKeys |-> NotCached]
NoFacadeCall == [op |-> "none", key |-> Absent, data |-> NotCached,
                 stored |-> Absent]
NoFacade == [last |-> NoFacadeCall, prev |-> NoFacadeCall]
NoSignOut == [pc |-> "idle", via |-> "none"]
NoOp == [op |-> "none", name |-> Absent, arg |-> Absent]
\* the tables of the Supabase DataService behind the modelled record sets
TableNames == {"student_profiles", "classes", "assessment_configs"}
NoTables == [u \in Users |-> [t \in TableNames |-> Absent]]
\* an aggregate: argument or result of a call, one field per record set
NoAgg == [studentProfiles |-> Absent, classRecords |-> Absent, config |-> Absent]
NoDsCall == [op |-> "none", arg |-> NoAgg, user |-> NoUser, step |-> 0]
NoDs == [isInitialized |-> FALSE, call |-> NoDsCall]
NoDsOut == [n |-> 0, op |-> "none", arg |-> NoAgg, user |-> NoUser,
            outcome |-> "none", requests |-> 0, ret |-> NoAgg]
\* a text is the sequence of its characters: 0..9 the digits, Letter a letter
Letter == 9 + 1
NoIds == [existingIds |-> <<>>, called |-> FALSE, nextId |-> <<>>]
\* JSON objects: the content of each top-level entry, Missing without it
Missing == "<missing>"
EntryNames == {"e1", "e2"}
Contents == {"x", "y"}
Objects == [EntryNames -> Contents \cup {Missing}]
EmptyObject == [e \in EntryNames |-> Missing]
\* two objects the application stores
ObjectX == [EmptyObject EXCEPT !["e1"] = "x"]
ObjectY == [EmptyObject EXCEPT !["e2"] = "y"]
\* a text of localStorage, or a value of a field: none, an object, or (for
\* a text) something JSON.parse rejects
None == [kind |-> "none", obj |-> EmptyObject]
MalformedText == [kind |-> "malformed", obj |-> EmptyObject]
\* the data types DataSync names and the keys it stores them under
dataTypes == <<"classRecords", "studentProfiles">>
DataTypes == {dataTypes[i] : i \in 1..Len(dataTypes)}
localKey == [classRecords |-> storageKeys[1], studentProfiles |-> storageKeys[2]]
NoStorage == [k \in Keys |-> None]
NoFields == [t \in DataTypes |-> None]
NoRow == [exists |-> FALSE, data |-> NoFields]
NoUserData == [u \in Users |-> NoRow]
CallIds == 1..MaxSyncCalls
FreeCall == [pc |-> "free", op |-> "none", type |-> "none", user |-> NoUser,
             localData |-> EmptyObject, updated |-> NoFields, result |-> "none"]
NoAutoSync == [key |-> Absent, value |-> EmptyObject]
\* the last mergeData: local storage before it and its argument
NoMergeData == [ran |-> FALSE, pre |-> NoStorage, backendData |-> NoFields]
NoDataSync == [inited |-> FALSE, syncEnabled |-> FALSE, syncTimeout |-> FALSE,
               nAuto |-> 0, lastAuto |-> NoAutoSync, lastMerge |-> NoMergeData,
               calls |-> [c \in CallIds |-> FreeCall]]
NoApiCall == [op |-> "none", pc |-> "idle", key |-> "none", value |-> EmptyObject,
              user |-> NoUser]
NoApi == [call |-> NoApiCall, log |-> <<>>]
NoInit == [ran |-> FALSE, user |-> NoUser, ok |-> FALSE]
NoWrite == [op |-> "none", key |-> Absent, value |-> Absent, user |-> NoUser,
            shim |-> FALSE, autoSync |-> FALSE]
NoBurst == [key |-> Absent, n |-> 0, first |-> Absent]
NoCall == [key |-> Absent, value |-> Absent, n |-> 0, first |-> Absent,
           want |-> Absent, accepted |-> FALSE]

(***************************************************************************)
(* The part of the state that the code segments below read and write,      *)
(* threaded through them as a record.                                      *)
(***************************************************************************)
Cur == [local |-> local, syncTimeout |-> syncTimeout, pushes |-> pushes,
        tasks |-> tasks, dataLoaded |-> dataLoaded, merged |-> merged,
        syncInProgress |-> syncInProgress, autoSync |-> autoSync,
        isInitialized |-> isInitialized, isEnabled |-> isEnabled,
        listening |-> listening, subscriptions |-> subscriptions,
        settled |-> settled, shim |-> shim, dsLast |-> dsLast,
        cache |-> cache, session |-> session, currentUser |-> currentUser,
        page |-> page, out |-> out, full |-> full,
        facade |-> facade, ds |-> ds, tables |-> tables, dsOut |-> dsOut,
        ids |-> ids, storage |-> storage, userData |-> userData,
        dataSync |-> dataSync, api |-> api]

Commit(s) ==
    /\ local' = s.local
    /\ syncTimeout' = s.syncTimeout
    /\ pushes' = s.pushes
    /\ tasks' = s.tasks
    /\ dataLoaded' = s.dataLoaded
    /\ merged' = s.merged
    /\ syncInProgress' = s.syncInProgress
    /\ autoSync' = s.autoSync
    /\ isInitialized' = s.isInitialized
    /\ isEnabled' = s.isEnabled
    /\ listening' = s.listening
    /\ subscriptions' = s.subscriptions
    /\ settled' = s.settled
    /\ shim' = s.shim
    /\ dsLast' = s.dsLast
    /\ cache' = s.cache
    /\ session' = s.session
    /\ currentUser' = s.currentUser
    /\ page' = s.page
    /\ out' = s.out
    /\ full' = s.full
    /\ facade' = s.facade
    /\ ds' = s.ds
    /\ tables' = s.tables
    /\ dsOut' = s.dsOut
    /\ ids' = s.ids
    /\ storage' = s.storage
    /\ userData' = s.userData
    /\ dataSync' = s.dataSync
    /\ api' = s.api

FreeIds(f, Ids) == {x \in Ids : f[x].pc = "free"}
MinOf(S) == CHOOSE x \in S : \A y \in S : x <= y

(***************************************************************************)
(* StorageAdapter.  isManagedKey: the key starts with 'schoolPlatform_'.   *)
(* Its syncToSupabase(key, value) routes the decoded value to a set        *)
(* operation of window.dataService; every failure is caught and logged.    *)
(***************************************************************************)
isManagedKey(key) == key \in Keys \cup {ConfigKey, SettingsKey}

\* key.replace('schoolPlatform_assessmentConfig_', '')
className(key) == IF key = ConfigKey THEN "c1" ELSE Absent

adapterRoute(key) ==
    CASE key = "schoolPlatform_studentProfiles" -> "setStudentProfiles"
      [] key = "schoolPlatform_classRecords" -> "setClassRecords"
      [] key = ConfigKey -> "setAssessmentConfig"
      [] key = "schoolPlatform_attendance" -> "setAttendance"
      [] key = "schoolPlatform_teacherProfile" -> "setTeacherProfile"
      [] OTHER -> "none"

\* the set operations the Supabase DataService defines
dataServiceSetters ==
    {"setTeacherProfile", "setClassRecords", "setAttendance", "setAssessmentConfig"}

\* JSON.parse of a stored text: the decoded value, tagged as such
JSONparse(text) == [json |-> text]

\* up to the await of the set operation; a missing operation is a TypeError
\* that the catch block swallows
adapterSync(s, key, value) ==
    IF s.currentUser = NoUser \/ adapterRoute(key) \notin dataServiceSetters THEN s
    ELSE LET p == MinOf(FreeIds(s.pushes, PushIds)) IN
         [s EXCEPT !.dsLast = [op |-> adapterRoute(key),
                               name |-> className(key),
                               arg |-> IF Truthy(value) THEN JSONparse(value)
                                       ELSE JSONparse("{}")],
                   !.pushes = [@ EXCEPT ![p] =
                       [pc |-> "adapter_set", key |-> key, data |-> value,
                        caller |-> 0, user |-> s.currentUser, timer |-> FALSE]]]

(***************************************************************************)
(* localStorage.setItem.  As wrapped by enableAutoSync: the write, then    *)
(* for a key of storageKeys the single debounce timer is cleared and set   *)
(* again.  As wrapped by the StorageAdapter: the write, then for a managed *)
(* key the fire-and-forget syncToSupabase.                                 *)
(***************************************************************************)
\* variant: the timer is armed for a write to any key
setItem_anyKey(s, key, value) ==
    LET s1 == [s EXCEPT !.local = [s.local EXCEPT ![key] = value],
                        !.syncTimeout = IF s.autoSync
                                        THEN [key |-> key, value |-> value]
                                        ELSE s.syncTimeout]
    IN  IF s.shim /\ isManagedKey(key) THEN adapterSync(s1, key, value) ELSE s1

\* variant: a pending timer is left as it is instead of being replaced
setItem_keepsPending(s, key, value) ==
    LET s1 == [s EXCEPT !.local = [s.local EXCEPT ![key] = value],
                        !.syncTimeout = IF s.autoSync /\ key \in Keys
                                           /\ s.syncTimeout = NoTimer
                                        THEN [key |-> key, value |-> value]
                                        ELSE s.syncTimeout]
    IN  IF s.shim /\ isManagedKey(key) THEN adapterSync(s1, key, value) ELSE s1

setItem(s, key, value) ==
    LET s1 == [s EXCEPT !.local = [s.local EXCEPT ![key] = value],
                        !.syncTimeout = IF s.autoSync /\ key \in Keys
                                        THEN [key |-> key, value |-> value]
                                        ELSE s.syncTimeout]
    IN  IF s.shim /\ isManagedKey(key) THEN adapterSync(s1, key, value) ELSE s1

(***************************************************************************)
(* syncToSupabase(key, data) up to its first await.  The service refuses   *)
(* the call while disabled or while syncInProgress; the loader only while  *)
(* disabled.  Returns the state and whether a push was started.            *)
(***************************************************************************)
syncToSupabase_guard(s) ==
    IF impl = "service" THEN s.isEnabled /\ ~s.syncInProgress
    ELSE s.isEnabled

syncToSupabase(s, key, data, caller, timer) ==
    IF ~syncToSupabase_guard(s) THEN s
    ELSE LET p == MinOf(FreeIds(s.pushes, PushIds)) IN
         [s EXCEPT !.syncInProgress = IF impl = "service" THEN TRUE ELSE @,
                   !.pushes = [@ EXCEPT ![p] =
                       [pc |-> "getUser", key |-> key, data |-> data,
                        caller |-> caller, user |-> NoUser, timer |-> timer]]]

(***************************************************************************)
(* Ends of the handlers.                                                   *)
(***************************************************************************)
endTask(s, t) == [s EXCEPT !.tasks[t] = FreeTask]

\* enableAutoSync(): if (!this.isEnabled) return; wrap localStorage.setItem
enableAutoSync(s) == IF ~s.isEnabled THEN s ELSE [s EXCEPT !.autoSync = TRUE]

\* loader: end of initialize() and the rest of the IIFE, which registers
\* the dataLoaded and authStateChanged listeners
loaderEnd(s, t) == endTask([s EXCEPT !.isInitialized = TRUE, !.listening = TRUE], t)

\* what the caller of loadFromSupabase() does when it returns
afterLoad(s, t) ==
    CASE s.tasks[t].kind = "manual" -> endTask(s, t)
      [] s.tasks[t].kind = "auth" -> endTask(s, t)
      [] s.tasks[t].kind = "load" /\ impl = "service" ->
            endTask(enableAutoSync(s), t)
      [] OTHER -> loaderEnd(enableAutoSync(s), t)

\* return of loadFromSupabase(); ok is the value it resolves to
loadReturn(s, t, ok) ==
    afterLoad([s EXCEPT !.merged =
                  IF s.tasks[t].kind = "load"    \* history of the startup merge
                  THEN [ok |-> ok, ran |-> TRUE, user |-> s.tasks[t].user,
                        data |-> s.tasks[t].data,
                        preLocal |-> s.tasks[t].preLocal, fetched |-> TRUE]
                  ELSE @], t)

\* variant: the catch block also switches the service off
loadFailed_disables(s, t) ==
    LET s1 == loadReturn([s EXCEPT !.isEnabled = FALSE], t, FALSE)
    IN  IF s.tasks[t].kind = "load" THEN [s1 EXCEPT !.merged.fetched = FALSE]
        ELSE s1

\* the fetch failed: getUser gave no user or threw, or the select failed;
\* the catch block (the loader's `return false`) ends loadFromSupabase
loadFailed(s, t) ==
    LET s1 == loadReturn(s, t, FALSE)
    IN  IF s.tasks[t].kind = "load" THEN [s1 EXCEPT !.merged.fetched = FALSE]
        ELSE s1

\* variant: the event is dispatched only when a row was written locally
loadTail_countOnly(s, t) ==
    loadReturn([s EXCEPT !.dataLoaded =
                    IF s.tasks[t].loadCount > 0 THEN @ + 1 ELSE @], t, TRUE)

\* service: if (loadCount > 0 || hasServerData) dispatch dataLoaded; return true
loadTail(s, t) ==
    loadReturn([s EXCEPT !.dataLoaded =
                    IF s.tasks[t].loadCount > 0 \/ hasServerData(s.tasks[t].data)
                    THEN @ + 1 ELSE @], t, TRUE)

\* localStorage.setItem(key, serverData); loadCount++
adopt(s, t, key, value) ==
    [setItem(s, key, value) EXCEPT !.tasks[t].loadCount = @ + 1]

(***************************************************************************)
(* service: the per-key merge loop, from the key of index i.  The loop     *)
(* suspends where it awaits an upload that syncToSupabase accepted.        *)
(***************************************************************************)
\* variant: when both sides hold data the local value is kept
mergeDecision_localWins(localData, serverData) ==
    IF Truthy(serverData) /\ IsEmptyData(localData) THEN "adopt"
    ELSE IF Truthy(localData) /\ IsEmptyData(serverData) THEN "upload"
    ELSE "skip"

\* variant: server data is taken only over local data that exists
mergeDecision_noAdopt(localData, serverData) ==
    IF Truthy(localData) /\ IsEmptyData(serverData) THEN "upload"
    ELSE IF Truthy(serverData) /\ Truthy(localData) THEN "adopt"
    ELSE "skip"

\* the three-way choice made for one key
mergeDecision(localData, serverData) ==
    IF Truthy(serverData) /\ IsEmptyData(localData) THEN "adopt"
    ELSE IF Truthy(localData) /\ IsEmptyData(serverData) THEN "upload"
    ELSE IF Truthy(serverData) /\ Truthy(localData) THEN "adopt"
    ELSE "skip"

RECURSIVE mergeLoop(_, _, _)
mergeLoop(s, t, i) ==
    IF i > Len(storageKeys) THEN loadTail(s, t)
    ELSE LET key == storageKeys[i]
             localData == s.local[key]
             serverData == serverDataMap(s.tasks[t].data)[key]
             decision == mergeDecision(localData, serverData)
         IN  IF decision = "adopt"
             THEN mergeLoop(adopt(s, t, key, serverData), t, i + 1)
             ELSE IF decision = "upload" /\ syncToSupabase_guard(s)
             THEN [syncToSupabase(s, key, localData, t, FALSE)
                       EXCEPT !.tasks[t].pc = "upload", !.tasks[t].i = i]
             ELSE mergeLoop(s, t, i + 1)

\* for (const item of data) if (item.data_key && item.data_value) setItem
RECURSIVE loadRows(_, _, _)
loadRows(s, t, rows) ==
    IF rows = <<>> THEN s
    ELSE LET key == Head(rows)
             value == s.tasks[t].data[key]
         IN  loadRows(IF Truthy(value) THEN adopt(s, t, key, value) ELSE s,
                      t, Tail(rows))

\* service: the body of loadFromSupabase after the rows have arrived
loadMerge(s, t, rows) ==
    IF hasServerData(s.tasks[t].data)
    THEN IF localDataExists(s.local)
         THEN mergeLoop(s, t, 1)
         ELSE loadTail(loadRows(s, t, rows), t)
    ELSE IF localDataExists(s.local)
         THEN loadReturn(s, t, FALSE)   \* this.saveToSupabase is not a function
         ELSE loadTail(s, t)

\* loader: the body of loadFromSupabase after the rows have arrived
loaderLoad(s, t, rows) ==
    LET s1 == loadRows(s, t, rows)
    IN  loadReturn([s1 EXCEPT !.dataLoaded =
                       IF s1.tasks[t].loadCount > 0 THEN @ + 1 ELSE @], t, TRUE)

\* loadFromSupabase() up to its first await
loadFromSupabase(s, t) ==
    IF ~s.isEnabled THEN afterLoad(s, t)
    ELSE [s EXCEPT !.tasks[t].pc = "load_getUser"]

\* service: the listeners' code after `await syncService.initialize()`
afterInitialize(s, t) ==
    IF s.isEnabled THEN loadFromSupabase(s, t) ELSE endTask(s, t)

\* initialize() up to its first await
initialize(s, t) ==
    IF s.isInitialized
    THEN IF impl = "service" THEN afterInitialize(s, t) ELSE endTask(s, t)
    ELSE [s EXCEPT !.tasks[t].pc = "init_getUser"]

\* the script of the page: the service's load listener and the loader's
\* IIFE call initialize(); the StorageAdapter's IIFE wraps setItem
pageScript(s, t) ==
    IF impl = "adapter" THEN endTask([s EXCEPT !.shim = TRUE], t)
    ELSE initialize(s, t)

newTask(s, t, kind) ==
    [s EXCEPT !.tasks[t] = [FreeTask EXCEPT !.pc = "run", !.kind = kind]]

(***************************************************************************)
(* Initial state: a page that has just been opened.  Local storage and the *)
(* owner's remote rows hold whatever earlier sessions left there.          *)
(***************************************************************************)
InitCore ==
    /\ isEnabled = FALSE
    /\ isInitialized = FALSE
    /\ syncInProgress = FALSE
    /\ autoSync = FALSE
    /\ shim = FALSE
    /\ dsLast = NoOp
    /\ cache = NoCache
    /\ session = (authUser # NoUser)
    /\ currentUser = authUser
    /\ page = "app"
    /\ out = NoSignOut
    /\ listening = FALSE
    /\ subscriptions = 0
    /\ syncTimeout = NoTimer
    /\ tasks = [t \in TaskIds |-> FreeTask]
    /\ pushes = [p \in PushIds |-> FreePush]
    /\ notes = {}
    /\ nNotes = 0
    /\ dataLoaded = 0
    /\ pageLoaded = FALSE
    /\ nWrites = 0
    /\ nAuthEvents = 0
    /\ nManual = 0
    /\ lastWritten = [k \in Keys |-> Absent]
    /\ lastCall = NoCall
    /\ settled = NoSettle
    /\ merged = NoMerge
    /\ full = NoFull
    /\ facade = NoFacade
    /\ ds = NoDs
    /\ tables = NoTables
    /\ dsOut = NoDsOut
    /\ failures = FALSE
    /\ burst = NoBurst
    /\ lost = {}
    /\ midFlight = {}
    /\ crossed = {}
    /\ lastInit = NoInit
    /\ lastOp = NoWrite

\* no call of the utilities yet
InitUtils ==
    /\ ids = NoIds
    /\ storage = NoStorage
    /\ userData = NoUserData
    /\ dataSync = NoDataSync
    /\ api = NoApi

InitRest == InitCore /\ InitUtils

\* a session that starts from empty local storage, the owner's remote rows
\* empty or holding a class-records value of an earlier session
Init ==
    /\ impl \in {"service", "loader", "adapter"}
    /\ authUser = Owner
    /\ local = NoLocal
    /\ remote \in {[u \in Users |-> NoData],
                   [u \in Users |-> [NoData EXCEPT ![storageKeys[1]] = "A"]]}
    /\ InitRest

\* a session that starts from any local storage and any remote rows
InitMerge ==
    /\ impl \in {"service", "loader"}
    /\ authUser \in {Owner, NoUser}
    /\ local \in {f \in [LocalKeys -> Vals \cup {Absent}] :
                       \A k \in LocalKeys \ Keys : f[k] = Absent}
    /\ remote \in {r \in [Users -> [Keys -> Vals \cup {Absent}]] :
                        \A u \in Users \ {Owner} : r[u] = NoData}
    /\ InitRest

\* variables no code segment writes, and the history variables
Env == <<impl, authUser, remote, notes, nNotes, pageLoaded, nWrites, nAuthEvents, nManual>>
Hist == <<lastWritten, lastCall, failures, lost, midFlight, crossed>>
Obs == <<lastInit, lastOp>>

\* the burst ends when anything but an application write re-arms the timer
Track(s) == burst' = IF s.syncTimeout = syncTimeout THEN burst ELSE NoBurst

HasFreeTask == FreeIds(tasks, TaskIds) # {}
HasFreePush == FreeIds(pushes, PushIds) # {}

(***************************************************************************)
(* window 'load': the service's listener; for the loader, the IIFE itself. *)
(***************************************************************************)
PageLoad ==
    /\ ~pageLoaded
    /\ page = "app"
    /\ HasFreeTask
    /\ pageLoaded' = TRUE
    /\ LET t == MinOf(FreeIds(tasks, TaskIds))
           s1 == pageScript(newTask(Cur, t, "load"), t)
       IN  Commit(s1) /\ Track(s1)
    /\ UNCHANGED <<impl, authUser, remote, notes, nNotes, nWrites, nAuthEvents, nManual>>
    /\ UNCHANGED <<Hist, Obs>>

(***************************************************************************)
(* initialize(): answer of `await this.supabase.auth.getUser()`.           *)
(***************************************************************************)
\* variant: a lookup that threw is taken for a user
initGate_ignoresError(user, ok) == ~ok \/ user # NoUser

\* this.isEnabled = !!user; a lookup that throws ends in the catch block,
\* which sets isEnabled = false
initGate(user, ok) == ok /\ user # NoUser

InitGetUser(t, ok) ==
    /\ tasks[t].pc = "init_getUser"
    /\ lastInit' = [ran |-> TRUE, user |-> authUser, ok |-> ok]
    /\ LET en == initGate(authUser, ok)
           s0 == [Cur EXCEPT !.isEnabled = en]
           s1 == IF impl = "service"
                 THEN IF en THEN [s0 EXCEPT !.tasks[t].pc = "rt_getUser"]
                      ELSE afterInitialize([s0 EXCEPT !.isInitialized = TRUE], t)
                 ELSE IF en THEN loadFromSupabase(s0, t)
                      ELSE loaderEnd(s0, t)
       IN  Commit(s1) /\ Track(s1)
    /\ failures' = (failures \/ ~ok)
    /\ UNCHANGED <<Env, lastWritten, lastCall, lost, midFlight, crossed,
                   lastOp>>

(***************************************************************************)
(* setupRealtimeSync(): answer of its getUser; subscribes when a user is   *)
(* returned.  initialize() then sets isInitialized and returns.            *)
(***************************************************************************)
RtGetUser(t, ok) ==
    /\ tasks[t].pc = "rt_getUser"
    /\ LET s0 == [Cur EXCEPT !.subscriptions =
                      IF ok /\ authUser # NoUser THEN @ + 1 ELSE @,
                             !.isInitialized = TRUE]
           s1 == afterInitialize(s0, t)
       IN  Commit(s1) /\ Track(s1)
    /\ failures' = (failures \/ ~ok)
    /\ UNCHANGED <<Env, lastWritten, lastCall, lost, midFlight, crossed, Obs>>

(***************************************************************************)
(* loadFromSupabase(): answer of its getUser, then the select is issued.   *)
(***************************************************************************)
LoadGetUser(t, ok) ==
    /\ tasks[t].pc = "load_getUser"
    /\ LET s1 == IF ok /\ authUser # NoUser
                 THEN [Cur EXCEPT !.tasks[t].pc = "load_select",
                                  !.tasks[t].user = authUser]
                 ELSE loadFailed(Cur, t)
       IN  Commit(s1) /\ Track(s1)
    /\ failures' = (failures \/ ~ok \/ authUser = NoUser)
    /\ UNCHANGED <<Env, lastWritten, lastCall, lost, midFlight, crossed, Obs>>

(***************************************************************************)
(* loadFromSupabase(): answer of the select; the merge runs to its first   *)
(* awaited upload or to its end.  rows is the order of the returned rows.  *)
(***************************************************************************)
LoadSelect(t, ok, rows) ==
    /\ tasks[t].pc = "load_select"
    /\ HasFreePush
    /\ LET s0 == [Cur EXCEPT !.tasks[t].data = remote[tasks[t].user],
                             !.tasks[t].preLocal = local]
           s1 == IF ~ok THEN loadFailed(Cur, t)
                 ELSE IF impl = "service" THEN loadMerge(s0, t, rows)
                 ELSE loaderLoad(s0, t, rows)
       IN  Commit(s1) /\ Track(s1)
    /\ failures' = (failures \/ ~ok)
    /\ UNCHANGED <<Env, lastWritten, lastCall, lost, midFlight, crossed, Obs>>

(***************************************************************************)
(* The application writes value to key with localStorage.setItem.          *)
(***************************************************************************)
InFlight(k) == {p \in PushIds : pushes[p].pc # "free" /\ pushes[p].key = k}

UserWrite(key, value) ==
    /\ nWrites < MaxWrites
    /\ shim => HasFreePush
    /\ nWrites' = nWrites + 1
    /\ Commit(setItem(Cur, key, value))
    /\ lastWritten' = [lastWritten EXCEPT ![key] = value]
    /\ burst' = IF ~autoSync THEN burst
                ELSE IF syncTimeout # NoTimer /\ syncTimeout.key = key
                        /\ burst.key = key
                THEN [burst EXCEPT !.n = @ + 1]
                ELSE [key |-> key, n |-> 1, first |-> value]
    /\ lost' = lost \ {key}
    /\ midFlight' = IF autoSync /\ InFlight(key) # {} THEN midFlight \cup {key}
                    ELSE midFlight \ {key}
    /\ crossed' = IF autoSync /\ syncTimeout # NoTimer /\ syncTimeout.key # key
                     /\ syncTimeout.value = lastWritten[syncTimeout.key]
                  THEN (crossed \ {key}) \cup {syncTimeout.key}
                  ELSE crossed \ {key}
    /\ UNCHANGED <<impl, authUser, remote, notes, nNotes, pageLoaded, nAuthEvents,
                   nManual, lastCall, failures, lastInit>>
    /\ lastOp' = [op |-> "setItem", key |-> key, value |-> value,
                  user |-> currentUser, shim |-> shim, autoSync |-> autoSync]

\* a write to a key outside storageKeys
OtherWrite(key, value) ==
    /\ page = "app"
    /\ nWrites < MaxWrites
    /\ shim => HasFreePush
    /\ nWrites' = nWrites + 1
    /\ LET s1 == setItem(Cur, key, value) IN Commit(s1) /\ Track(s1)
    /\ lastOp' = [op |-> "setItem", key |-> key, value |-> value,
                  user |-> currentUser, shim |-> shim, autoSync |-> autoSync]
    /\ UNCHANGED <<impl, authUser, remote, notes, nNotes, pageLoaded,
                   nAuthEvents, nManual, Hist, lastInit>>

(***************************************************************************)
(* Removals.  Neither sync service wraps removeItem; the StorageAdapter's  *)
(* wrapper only calls the original.  DataService.remove also drops the     *)
(* cache entry.                                                            *)
(***************************************************************************)
\* the call just made: its argument or return value and the text that
\* localStorage held for the key when it was made
logFacade(s, op, key, data, stored) ==
    [s EXCEPT !.facade = [last |-> [op |-> op, key |-> key, data |-> data,
                                    stored |-> stored],
                          prev |-> s.facade.last]]

\* variant: the removal is mirrored like a write
removeItem_mirrors(s, key) ==
    [s EXCEPT !.local[key] = Absent,
              !.syncTimeout = [key |-> key, value |-> Absent]]

removeItem(s, key) == [s EXCEPT !.local[key] = Absent]

remove(s, key) == [removeItem(s, key) EXCEPT !.cache[key] = NotCached]

RemoveItem(key) ==
    /\ page = "app"
    /\ nWrites < MaxWrites
    /\ local[key] # Absent
    /\ nWrites' = nWrites + 1
    /\ LET s1 == removeItem(Cur, key) IN Commit(s1) /\ Track(s1)
    /\ lastOp' = [op |-> "removeItem", key |-> key, value |-> Absent,
                  user |-> currentUser, shim |-> shim, autoSync |-> autoSync]
    /\ UNCHANGED <<impl, authUser, remote, notes, nNotes, pageLoaded,
                   nAuthEvents, nManual, Hist, lastInit>>

FacadeRemove(key) ==
    /\ page = "app"
    /\ nWrites < MaxWrites
    /\ local[key] # Absent
    /\ nWrites' = nWrites + 1
    /\ LET s1 == logFacade(remove(Cur, key), "remove", key, NotCached, local[key])
       IN  Commit(s1) /\ Track(s1)
    /\ lastOp' = [op |-> "remove", key |-> key, value |-> Absent,
                  user |-> currentUser, shim |-> shim, autoSync |-> autoSync]
    /\ UNCHANGED <<impl, authUser, remote, notes, nNotes, pageLoaded,
                   nAuthEvents, nManual, Hist, lastInit>>

(***************************************************************************)
(* The debounce timer fires: () => this.syncToSupabase(key, value).        *)
(***************************************************************************)
TimerFire ==
    /\ syncTimeout # NoTimer
    /\ HasFreePush
    /\ LET key == syncTimeout.key
           value == syncTimeout.value
           s0 == [Cur EXCEPT !.syncTimeout = NoTimer]
           accepted == syncToSupabase_guard(s0)
       IN  /\ Commit(syncToSupabase(s0, key, value, 0, TRUE))
           /\ lastCall' = [key |-> key, value |-> value,
                           n |-> IF burst.key = key THEN burst.n ELSE 0,
                           first |-> IF burst.key = key THEN burst.first
                                     ELSE Absent,
                           want |-> lastWritten[key], accepted |-> accepted]
           /\ lost' = IF ~accepted /\ value = lastWritten[key]
                      THEN lost \cup {key} ELSE lost
    /\ burst' = NoBurst
    /\ UNCHANGED <<Env, lastWritten, failures, midFlight, crossed, Obs>>

(***************************************************************************)
(* fullSync(): for each key of storageKeys with a truthy local value,      *)
(* `await this.syncToSupabase(key, data)`; the answer only feeds           *)
(* syncCount.  The loop suspends where syncToSupabase accepted the call;   *)
(* after the last key fullSync returns true.                               *)
(***************************************************************************)
fullReturn(s, t, result) ==
    endTask([s EXCEPT !.full.ran = TRUE, !.full.result = result,
                      !.full.preLocal = s.tasks[t].preLocal], t)

RECURSIVE fullLoop(_, _, _)
fullLoop(s, t, i) ==
    IF i > Len(storageKeys) THEN fullReturn(s, t, TRUE)
    ELSE LET key == storageKeys[i]
             data == s.local[key]
         IN  IF Truthy(data) /\ syncToSupabase_guard(s)
             THEN [syncToSupabase(s, key, data, t, FALSE)
                       EXCEPT !.tasks[t].pc = "full_push", !.tasks[t].i = i]
             ELSE fullLoop(s, t, i + 1)

fullSync(s, t) ==
    IF ~s.isEnabled THEN fullReturn(s, t, FALSE)
    ELSE fullLoop(s, t, 1)

(***************************************************************************)
(* syncToSupabase settles: the finally block, the value it resolves to,    *)
(* and the continuation of a merge loop that awaited it.                   *)
(***************************************************************************)
\* variant: the flag is reset at the end of the try block, not in a finally
settle_keepsFlag(s, p, result) ==
    LET s1 == [s EXCEPT !.pushes[p] = FreePush,
                        !.syncInProgress = IF impl = "service" /\ result = "true"
                                           THEN FALSE ELSE @]
        caller == s.pushes[p].caller
        key == s.pushes[p].key
        s2 == IF caller = 0 THEN s1
              ELSE IF s1.tasks[caller].kind = "full"
              THEN fullLoop(s1, caller, s1.tasks[caller].i + 1)
              ELSE mergeLoop(s1, caller, s1.tasks[caller].i + 1)
    IN  [s2 EXCEPT !.settled = [key |-> key, data |-> s.pushes[p].data,
                                result |-> result, error |-> FALSE,
                                kept |-> s2.local[key] = s.local[key]]]

settle(s, p, result) ==
    LET s1 == [s EXCEPT !.pushes[p] = FreePush,
                        !.syncInProgress = IF impl = "service" THEN FALSE ELSE @]
        caller == s.pushes[p].caller
        key == s.pushes[p].key
        s2 == IF caller = 0 THEN s1
              ELSE IF s1.tasks[caller].kind = "full"
              THEN fullLoop(s1, caller, s1.tasks[caller].i + 1)
              ELSE mergeLoop(s1, caller, s1.tasks[caller].i + 1)
    IN  [s2 EXCEPT !.settled = [key |-> key, data |-> s.pushes[p].data,
                                result |-> result, error |-> FALSE,
                                kept |-> s2.local[key] = s.local[key]]]

\* } catch (error) { console.warn(...); return false; }
\* the StorageAdapter's catch block only logs: the call resolves undefined
\* variant: the error is rethrown
pushFailed_rethrows(s, p) == settle(s, p, "throw")

pushFailed(s, p) == settle(s, p, IF impl = "adapter" THEN "undefined" ELSE "false")
pushDone(s, p) == settle(s, p, IF impl = "adapter" THEN "undefined" ELSE "true")

lostAfter(p, ok) ==
    IF pushes[p].key \notin Keys THEN lost
    ELSE IF pushes[p].data # lastWritten[pushes[p].key] THEN lost
    ELSE IF ok THEN lost \ {pushes[p].key}
    ELSE IF pushes[p].timer THEN lost \cup {pushes[p].key}
    ELSE lost

\* answer of syncToSupabase's getUser; with a user, the upsert is issued
PushGetUser(p, ok) ==
    /\ pushes[p].pc = "getUser"
    /\ LET go == ok /\ authUser # NoUser
           s1 == IF go THEN [Cur EXCEPT !.pushes[p].pc = "upsert",
                                        !.pushes[p].user = authUser]
                 ELSE [pushFailed(Cur, p) EXCEPT !.settled.error = TRUE]
       IN  /\ Commit(s1) /\ Track(s1)
           /\ lost' = IF go THEN lost ELSE lostAfter(p, FALSE)
           /\ failures' = (failures \/ ~go)
    /\ UNCHANGED <<Env, lastWritten, lastCall, midFlight, crossed, Obs>>

\* .upsert({user_id, data_key, data_value, updated_at}) names no onConflict
\* columns, so the conflict target is the primary key id, which the payload
\* leaves to its default: the statement is an insert of a new row, and
\* UNIQUE(user_id, data_key) rejects it when the pair has a row
upsertAccepted(rows, user, key) == rows[user][key] = Absent

\* answer of the upsert: a new row (user_id, data_key, data_value), or an
\* error of the request (~ok) or of the unique constraint.  A subscribed
\* page may be sent the change.
PushUpsert(p, ok, notify) ==
    /\ pushes[p].pc = "upsert"
    /\ LET done == ok /\ upsertAccepted(remote, pushes[p].user, pushes[p].key)
       IN
       /\ LET s1 == IF done THEN pushDone(Cur, p)
                    ELSE [pushFailed(Cur, p) EXCEPT !.settled.error = TRUE]
          IN  Commit(s1) /\ Track(s1)
       /\ remote' = IF done
                    THEN [remote EXCEPT ![pushes[p].user][pushes[p].key] =
                              pushes[p].data]
                    ELSE remote
       /\ LET sent == done /\ notify /\ subscriptions > 0 /\ nNotes < MaxNotes
          IN  /\ notes' = IF sent
                          THEN notes \cup {[key |-> pushes[p].key,
                                            value |-> pushes[p].data]}
                          ELSE notes
              /\ nNotes' = IF sent THEN nNotes + 1 ELSE nNotes
       /\ lost' = lostAfter(p, done)
    /\ failures' = (failures \/ ~ok)
    /\ UNCHANGED <<impl, authUser, pageLoaded, nWrites, nAuthEvents, nManual,
                   lastWritten, lastCall, midFlight, crossed, Obs>>

(***************************************************************************)
(* StorageAdapter: the awaited set operation of window.dataService         *)
(* returns or throws; syncToSupabase returns nothing either way.           *)
(***************************************************************************)
AdapterSet(p, ok) ==
    /\ pushes[p].pc = "adapter_set"
    /\ LET s1 == IF ok THEN pushDone(Cur, p)
                 ELSE [pushFailed(Cur, p) EXCEPT !.settled.error = TRUE]
       IN  Commit(s1) /\ Track(s1)
    /\ lost' = lostAfter(p, ok)
    /\ failures' = (failures \/ ~ok)
    /\ UNCHANGED <<Env, lastWritten, lastCall, midFlight, crossed, Obs>>

(***************************************************************************)
(* handleRealtimeUpdate(payload) for a delivered change notification.      *)
(***************************************************************************)
handleRealtimeUpdate(s, newData) ==
    IF s.syncInProgress THEN s
    ELSE IF Truthy(newData.key) /\ Truthy(newData.value)
         THEN setItem(s, newData.key, newData.value)
         ELSE s

RealtimeDeliver(note) ==
    /\ note \in notes
    /\ notes' = notes \ {note}
    /\ LET s1 == handleRealtimeUpdate(Cur, note)
       IN  Commit(s1) /\ Track(s1)
    /\ UNCHANGED <<impl, authUser, remote, nNotes, pageLoaded, nWrites,
                   nAuthEvents, nManual>>
    /\ UNCHANGED <<Hist, Obs>>

(***************************************************************************)
(* An auth event: the Auth Gate now answers user, and AuthService          *)
(* dispatches 'authStateChanged' to the registered listeners.              *)
(***************************************************************************)
AuthStateChanged(user) ==
    /\ nAuthEvents + nManual < MaxReloads
    /\ nAuthEvents' = nAuthEvents + 1
    /\ authUser' = user
    /\ (impl = "service" \/ listening) => HasFreeTask
    /\ LET t == MinOf(FreeIds(tasks, TaskIds))
           s1 == IF impl = "service" \/ listening
                 THEN initialize(newTask(Cur, t, "auth"), t)
                 ELSE Cur
       IN  Commit(s1) /\ Track(s1)
    /\ UNCHANGED <<impl, remote, notes, nNotes, pageLoaded, nWrites, nManual>>
    /\ UNCHANGED <<Hist, lastInit, lastOp>>

(***************************************************************************)
(* PWAManager.triggerManualSync(): only the loader publishes itself as     *)
(* window.syncService.                                                     *)
(***************************************************************************)
triggerManualSync ==
    /\ nAuthEvents + nManual < MaxReloads
    /\ nManual' = nManual + 1
    /\ (impl = "loader" /\ pageLoaded /\ isEnabled) => HasFreeTask
    /\ LET t == MinOf(FreeIds(tasks, TaskIds))
           s1 == IF impl = "loader" /\ pageLoaded /\ isEnabled
                 THEN loadFromSupabase(newTask(Cur, t, "manual"), t)
                 ELSE Cur
       IN  Commit(s1) /\ Track(s1)
    /\ UNCHANGED <<impl, authUser, remote, notes, nNotes, pageLoaded, nWrites,
                   nAuthEvents>>
    /\ UNCHANGED <<Hist, Obs>>

(***************************************************************************)
(* The application calls syncService.fullSync() of the SyncService.        *)
(***************************************************************************)
FullSync ==
    /\ impl = "service"
    /\ page = "app"
    /\ full.n < MaxFullSyncs
    /\ HasFreeTask
    /\ isEnabled => HasFreePush
    /\ LET t == MinOf(FreeIds(tasks, TaskIds))
           s0 == [newTask(Cur, t, "full") EXCEPT !.full.n = @ + 1,
                                                 !.tasks[t].preLocal = local]
           s1 == fullSync(s0, t)
       IN  Commit(s1) /\ Track(s1)
    /\ UNCHANGED <<Env, Hist, Obs>>

(***************************************************************************)
(* The local DataService facade over localStorage and its cache.           *)
(***************************************************************************)
\* JSON.stringify of a decoded value: the text it was decoded from
JSONstringify(data) == data.json

Datas == {JSONparse(v) : v \in Vals}

\* the default of getAssessmentConfig(className): the four standard weights
DefaultConfig == [json |-> "<defaultConfig>"]

\* the default each getter passes to get()
facadeDefault(key) == IF key = ConfigKey THEN DefaultConfig ELSE JSONparse(EmptyObj)

\* the text of JSON null, which get() passes when called without a default
NullText == "null"

\* get(key, defaultValue): what it returns and the state it leaves
get(s, key, defaultValue) ==
    IF s.cache[key] # NotCached THEN [ret |-> s.cache[key], s |-> s]
    ELSE IF s.local[key] = Absent THEN [ret |-> defaultValue, s |-> s]
    ELSE IF s.local[key] \notin Vals \cup {NullText}
         THEN [ret |-> defaultValue, s |-> s]
    ELSE [ret |-> JSONparse(s.local[key]),
          s |-> [s EXCEPT !.cache[key] = JSONparse(s.local[key])]]

\* variant: the cache keeps what it held
set_staleCache(s, key, data) == setItem(s, key, JSONstringify(data))

\* set(key, data)
set(s, key, data) ==
    [setItem(s, key, JSONstringify(data)) EXCEPT !.cache[key] = data]

\* the application saves through the facade
FacadeSet(key, data) ==
    /\ page = "app"
    /\ nWrites < MaxWrites
    /\ shim => HasFreePush
    /\ nWrites' = nWrites + 1
    /\ LET s1 == logFacade(set(Cur, key, data), "set", key, data, local[key])
       IN  Commit(s1) /\ Track(s1)
    /\ UNCHANGED <<impl, authUser, remote, notes, nNotes, pageLoaded, nAuthEvents,
                   nManual, Hist, Obs>>

\* the application reads through the facade
FacadeGet(key) ==
    /\ page = "app"
    /\ LET r == get(Cur, key, facadeDefault(key))
           s1 == logFacade(r.s, "get", key, r.ret, local[key])
       IN  Commit(s1) /\ Track(s1)
    /\ UNCHANGED <<Env, Hist, Obs>>

\* the values of this.storageKeys; the last names no key that storage
\* holds: the per-class keys carry the class name as a suffix
facadeStorageKeys == storageKeys \o <<"schoolPlatform_assessmentConfig">>

\* clear(): Object.values(this.storageKeys).forEach(key => this.remove(key))
RECURSIVE clearFrom(_, _)
clearFrom(s, keys) ==
    IF keys = <<>> THEN s
    ELSE clearFrom(IF Head(keys) \in LocalKeys THEN remove(s, Head(keys)) ELSE s,
                   Tail(keys))

clear(s) == clearFrom(s, facadeStorageKeys)

\* the application clears all data through the facade
FacadeClear ==
    /\ page = "app"
    /\ nWrites < MaxWrites
    /\ nWrites' = nWrites + 1
    /\ LET s1 == logFacade(clear(Cur), "clear", Absent, NotCached, Absent)
       IN  Commit(s1) /\ Track(s1)
    /\ UNCHANGED <<impl, authUser, remote, notes, nNotes, pageLoaded, nAuthEvents,
                   nManual, Hist, Obs>>

\* exportData(): data[name] = this.get(key) for the entries of storageKeys,
\* from the one of index i; data is the aggregate so far
RECURSIVE exportFrom(_, _, _)
exportFrom(s, i, data) ==
    IF i > Len(facadeStorageKeys) THEN [ret |-> data, s |-> s]
    ELSE LET key == facadeStorageKeys[i]
         IN  IF key \notin LocalKeys THEN exportFrom(s, i + 1, data)
             ELSE LET r == get(s, key, JSONparse(NullText))
                  IN  exportFrom(r.s, i + 1, [data EXCEPT ![key] = r.ret])

localExportData(s) == exportFrom(s, 1, [k \in Keys |-> NotCached])

\* importData(data), one entry: if (this.storageKeys[name]) this.set(key, value)
importEntry(s, data, i) ==
    IF i > Len(facadeStorageKeys) THEN s
    ELSE LET key == facadeStorageKeys[i]
         IN  IF key \notin LocalKeys THEN s ELSE set(s, key, data[key])

RECURSIVE importAll(_, _, _)
importAll(s, data, i) ==
    IF i > Len(facadeStorageKeys) THEN s
    ELSE importAll(importEntry(s, data, i), data, i + 1)

localImportData(s, data) == importAll(s, data, 1)

\* the application restores the backup it has just taken
FacadeImportExport ==
    /\ page = "app"
    /\ nWrites < MaxWrites
    /\ shim => HasFreePush
    /\ nWrites' = nWrites + 1
    /\ LET r == localExportData(Cur)
           s1 == logFacade(localImportData(r.s, r.ret), "import", Absent,
                           NotCached, Absent)
       IN  Commit(s1) /\ Track(s1)
    /\ UNCHANGED <<impl, authUser, remote, notes, nNotes, pageLoaded, nAuthEvents,
                   nManual, Hist, Obs>>

(***************************************************************************)
(* The Supabase DataService (window.dataService).  A call runs to its      *)
(* first remote request; the answer of the request ends it, or, for        *)
(* importData, leads to the request of the next record set.                *)
(***************************************************************************)
\* the default each getAssessmentConfig falls back to
DefaultWeights == "<defaultConfig>"

DataOps == {"getStudentProfiles", "saveStudentProfile", "deleteStudentProfile",
            "getClassRecords", "setClassRecords",
            "getAssessmentConfig", "setAssessmentConfig",
            "exportData", "importData", "clear"}

opTable(op) ==
    CASE op \in {"getStudentProfiles", "saveStudentProfile",
                 "deleteStudentProfile"} -> "student_profiles"
      [] op \in {"getClassRecords", "setClassRecords"} -> "classes"
      [] OTHER -> "assessment_configs"

\* initialize() and ensureInitialized(): whether they return, and the state
ensureInitialized(s) ==
    IF s.currentUser = NoUser THEN [ok |-> FALSE, s |-> s]
    ELSE [ok |-> TRUE, s |-> [s EXCEPT !.ds.isInitialized = TRUE]]

\* the call ends: it returns ret or throws
endCall(s, outcome, ret) ==
    [s EXCEPT !.ds.call = NoDsCall, !.dsOut.outcome = outcome, !.dsOut.ret = ret]

\* a request is sent and the call waits for its answer
request(s, op, arg, step) ==
    [s EXCEPT !.ds.call = [op |-> op, arg |-> arg, user |-> s.currentUser,
                           step |-> step],
              !.dsOut.requests = @ + 1]

\* the record sets importData looks at, in its order
importFields == <<"studentProfiles", "classRecords">>

\* importData from its field of index i: a field that is set is passed to
\* its set operation; this.setStudentProfiles is not a function, and
\* setClassRecords sends one upsert per class, none for the empty object
RECURSIVE importFrom(_, _, _)
importFrom(s, arg, i) ==
    IF i > Len(importFields) THEN endCall(s, "returned", NoAgg)
    ELSE IF ~Truthy(arg[importFields[i]]) THEN importFrom(s, arg, i + 1)
    ELSE IF importFields[i] = "studentProfiles" THEN endCall(s, "typeError", NoAgg)
    ELSE IF arg[importFields[i]] = EmptyObj THEN importFrom(s, arg, i + 1)
    ELSE request(s, "importData", arg, i)

\* a call of the application, up to the first request
dataServiceCall(s, op, arg) ==
    LET s0 == [s EXCEPT !.dsOut = [n |-> @.n + 1, op |-> op, arg |-> arg,
                                   user |-> s.currentUser, outcome |-> "pending",
                                   requests |-> 0, ret |-> NoAgg]]
        g == ensureInitialized(s0)
    IN  IF ~g.ok
        THEN IF op = "getAssessmentConfig"     \* catch: return defaultConfig
             THEN endCall(g.s, "returned", [NoAgg EXCEPT !.config = DefaultWeights])
             ELSE IF op = "setAssessmentConfig"    \* catch: warn; return config
             THEN endCall(g.s, "returned", arg)
             ELSE endCall(g.s, "authError", NoAgg)
        ELSE IF op = "importData" THEN importFrom(g.s, arg, 1)
        ELSE request(g.s, op, arg, 1)

\* what a get returns for the rows of a table
rowsOf(s, user, t) == IF s.tables[user][t] = Absent THEN EmptyObj
                      ELSE s.tables[user][t]

\* what exportData returns: the record sets read from the tables
exportData(s, user) ==
    [studentProfiles |-> rowsOf(s, user, "student_profiles"),
     classRecords |-> rowsOf(s, user, "classes"),
     config |-> Absent]

\* the answer of the request the call waits for
dataServiceAnswer(s, ok) ==
    LET c == s.ds.call
        t == opTable(c.op)
        stored(field) == [s EXCEPT !.tables[c.user][t] = c.arg[field]]
    IN  CASE c.op = "getStudentProfiles" ->
               IF ok THEN endCall(s, "returned",
                              [NoAgg EXCEPT !.studentProfiles = rowsOf(s, c.user, t)])
               ELSE endCall(s, "error", NoAgg)
          [] c.op = "getClassRecords" ->
               IF ok THEN endCall(s, "returned",
                              [NoAgg EXCEPT !.classRecords = rowsOf(s, c.user, t)])
               ELSE endCall(s, "error", NoAgg)
          [] c.op = "getAssessmentConfig" ->
               endCall(s, "returned",
                   [NoAgg EXCEPT !.config =
                        IF ok /\ Truthy(s.tables[c.user][t])
                        THEN s.tables[c.user][t] ELSE DefaultWeights])
          [] c.op = "saveStudentProfile" ->
               IF ok THEN endCall(stored("studentProfiles"), "returned", c.arg)
               ELSE endCall(s, "error", NoAgg)
          [] c.op = "setClassRecords" ->
               IF ok THEN endCall(stored("classRecords"), "returned", c.arg)
               ELSE endCall(s, "error", NoAgg)
          [] c.op = "setAssessmentConfig" ->
               endCall(IF ok THEN stored("config") ELSE s, "returned", c.arg)
          [] c.op = "deleteStudentProfile" ->
               IF ok THEN endCall([s EXCEPT !.tables[c.user][t] = Absent],
                                  "returned", NoAgg)
               ELSE endCall(s, "error", NoAgg)
          [] c.op = "exportData" ->
               IF ok THEN endCall(s, "returned", exportData(s, c.user))
               ELSE endCall(s, "error", NoAgg)
          [] c.op = "importData" ->
               IF ok THEN importFrom([s EXCEPT !.tables[c.user]["classes"] =
                                          c.arg.classRecords], c.arg, c.step + 1)
               ELSE endCall(s, "error", NoAgg)
          [] OTHER ->    \* clear(): the results of the deletes are not looked at
               endCall(IF ok THEN [s EXCEPT !.tables[c.user] =
                                       [x \in TableNames |-> Absent]]
                       ELSE s, "returned", NoAgg)

\* the arguments the application passes; every save carries the same
\* rows, so that an upsert over rows of an earlier save leaves these rows
DataArgs(op) ==
    CASE op = "saveStudentProfile" -> {[NoAgg EXCEPT !.studentProfiles = "A"]}
      [] op = "setClassRecords" -> {[NoAgg EXCEPT !.classRecords = "A"]}
      [] op = "setAssessmentConfig" -> {[NoAgg EXCEPT !.config = "A"]}
      [] op = "importData" ->
            {[studentProfiles |-> sp, classRecords |-> cr, config |-> Absent] :
                sp \in {Absent, EmptyObj, "A"}, cr \in {EmptyObj, "A"}}
      [] OTHER -> {NoAgg}

DataServiceCall(op, arg) ==
    /\ page = "app"
    /\ dsOut.n < MaxDataCalls
    /\ ds.call = NoDsCall
    /\ LET s1 == dataServiceCall(Cur, op, arg) IN Commit(s1) /\ Track(s1)
    /\ UNCHANGED <<Env, Hist, Obs>>

DataServiceAnswer(ok) ==
    /\ ds.call # NoDsCall
    /\ LET s1 == dataServiceAnswer(Cur, ok) IN Commit(s1) /\ Track(s1)
    /\ UNCHANGED <<Env, Hist, Obs>>

\* AuthService.handleAuthStateChange('SIGNED_IN', session) on an open page
\* and the listeners of the 'authStateChanged' event it dispatches
SignedInEvent(user) ==
    /\ page = "app"
    /\ currentUser = NoUser
    /\ authUser' = user
    /\ (impl = "service" \/ listening) => HasFreeTask
    /\ LET t == MinOf(FreeIds(tasks, TaskIds))
           s1 == [Cur EXCEPT !.currentUser = user, !.session = TRUE]
           s2 == IF impl = "service" \/ listening
                 THEN initialize(newTask(s1, t, "auth"), t)
                 ELSE s1
       IN  Commit(s2) /\ Track(s2)
    /\ UNCHANGED <<impl, remote, notes, nNotes, pageLoaded, nWrites, nAuthEvents,
                   nManual, Hist, Obs>>

(***************************************************************************)
(* AssessmentUtils.generateNextStudentId and StringUtils.formatStudentId.  *)
(***************************************************************************)
\* stands for NaN: below every value parseInt gives for digits
NaN == 0 - 1

IsDigit(c) == c \in 0..9

\* parseInt(text): the value of the leading digits, NaN without one
RECURSIVE parseDigits(_, _)
parseDigits(text, acc) ==
    IF text = <<>> \/ ~IsDigit(Head(text)) THEN acc
    ELSE parseDigits(Tail(text), acc * 10 + Head(text))

parseInt(text) ==
    IF text = <<>> \/ ~IsDigit(Head(text)) THEN NaN ELSE parseDigits(text, 0)

\* n.toString() of a non-negative integer
RECURSIVE toString(_)
toString(n) == IF n < 10 THEN <<n>> ELSE toString(n \div 10) \o <<n % 10>>

\* text.padStart(len, '0')
RECURSIVE padStart(_, _)
padStart(text, len) ==
    IF Len(text) >= len THEN text ELSE padStart(<<0>> \o text, len)

\* formatStudentId(id): if (!id) return ''; 0 is falsy
formatStudentId(id) == IF id = 0 THEN <<>> ELSE padStart(toString(id), 2)

\* .map(id => parseInt(id)).filter(id => !isNaN(id))
RECURSIVE numericIdsOf(_)
numericIdsOf(list) ==
    IF list = <<>> THEN <<>>
    ELSE LET n == parseInt(Head(list))
         IN  (IF n = NaN THEN <<>> ELSE <<n>>) \o numericIdsOf(Tail(list))

\* .sort((a, b) => a - b)
RECURSIVE insertSorted(_, _)
insertSorted(sorted, n) ==
    IF sorted = <<>> THEN <<n>>
    ELSE IF n < Head(sorted) THEN <<n>> \o sorted
    ELSE <<Head(sorted)>> \o insertSorted(Tail(sorted), n)

RECURSIVE sortNumeric(_)
sortNumeric(list) ==
    IF list = <<>> THEN <<>>
    ELSE insertSorted(sortNumeric(Tail(list)), Head(list))

\* for (const id of numericIds) if (id === nextId) nextId++ else break
RECURSIVE nextIdLoop(_, _)
nextIdLoop(numericIds, nextId) ==
    IF numericIds = <<>> THEN nextId
    ELSE IF Head(numericIds) = nextId THEN nextIdLoop(Tail(numericIds), nextId + 1)
    ELSE nextId

generateNextStudentId(existingIds) ==
    formatStudentId(nextIdLoop(sortNumeric(numericIdsOf(existingIds)), 0))

\* the application asks for the id of the next student
GenerateNextStudentId ==
    /\ ~ids.called
    /\ LET s1 == [Cur EXCEPT !.ids.called = TRUE,
                             !.ids.nextId = generateNextStudentId(ids.existingIds)]
       IN  Commit(s1) /\ Track(s1)
    /\ UNCHANGED <<Env, Hist, Obs>>

(***************************************************************************)
(* DataSync (data-sync.js): the whole of the user's data is one JSON       *)
(* object in the data column of the user's row of user_data.               *)
(***************************************************************************)
\* JSON.stringify(object) as stored text, the object as a field value
stringify(obj) == [kind |-> "object", obj |-> obj]

\* getLocalData(key): data ? JSON.parse(data) : {}; catch: return {}
getLocalData(s, key) ==
    IF s.storage[key].kind = "object" THEN s.storage[key].obj ELSE EmptyObject

\* { ...existingData, ...backendValue }
spread(existingData, backendValue) ==
    [e \in EntryNames |-> IF backendValue[e] # Missing THEN backendValue[e]
                          ELSE existingData[e]]

\* variant: the local entries win over the backend's
mergeType_localWins(s, backendData, type) ==
    IF backendData[type].kind # "object" THEN s
    ELSE [s EXCEPT !.storage[localKey[type]] =
              stringify(spread(backendData[type].obj,
                               getLocalData(s, localKey[type])))]

\* mergeData, one data type: if (backendData[type]) merge and store
mergeType(s, backendData, type) ==
    IF backendData[type].kind # "object" THEN s
    ELSE [s EXCEPT !.storage[localKey[type]] =
              stringify(spread(getLocalData(s, localKey[type]),
                               backendData[type].obj))]

\* mergeData(backendData): dataTypes.forEach(...)
RECURSIVE mergeFrom(_, _, _)
mergeFrom(s, backendData, i) ==
    IF i > Len(dataTypes) THEN s
    ELSE mergeFrom(mergeType(s, backendData, dataTypes[i]), backendData, i + 1)

mergeData(s, backendData) == mergeFrom(s, backendData, 1)

\* the object syncAllData sends: every data type read from local storage
allData(s) == [t \in DataTypes |-> stringify(getLocalData(s, localKey[t]))]

FreeCalls == {c \in CallIds : dataSync.calls[c].pc = "free"}

\* a call ends
callDone(s, c, result) ==
    [s EXCEPT !.dataSync.calls[c].pc = "done", !.dataSync.calls[c].result = result]

\* the common start of the remote calls: if (!this.syncEnabled) return;
\* if (!sessionStorage.getItem('currentUser')) return
startCall(s, c, op, type, pc) ==
    LET s1 == [s EXCEPT !.dataSync.calls[c] =
                   [FreeCall EXCEPT !.op = op, !.type = type, !.pc = pc,
                                    !.user = s.currentUser]]
    IN  IF ~s.dataSync.syncEnabled \/ ~s.session THEN callDone(s1, c, "skipped")
        ELSE s1

\* init(): the import of the Supabase client succeeds or throws
DataSyncInit(ok) ==
    /\ ~dataSync.inited
    /\ LET s1 == [Cur EXCEPT !.dataSync.inited = TRUE, !.dataSync.syncEnabled = ok]
       IN  Commit(s1) /\ Track(s1)
    /\ UNCHANGED <<Env, Hist, Obs>>

\* DataSync.autoSync(dataType, newData)
dataSyncAutoSync(s, key, newData) ==
    IF ~s.dataSync.syncEnabled THEN s
    ELSE [s EXCEPT !.storage[key] = stringify(newData),
                   !.dataSync.syncTimeout = TRUE]

AutoSync(key, newData) ==
    /\ dataSync.nAuto < MaxAutoSyncs
    /\ LET s0 == [Cur EXCEPT !.dataSync.nAuto = @ + 1,
                             !.dataSync.lastAuto = [key |-> key, value |-> newData]]
           s1 == dataSyncAutoSync(s0, key, newData)
       IN  Commit(s1) /\ Track(s1)
    /\ UNCHANGED <<Env, Hist, Obs>>

\* the timer of autoSync fires: syncAllData() up to its upsert
DataSyncTimer ==
    /\ dataSync.syncTimeout
    /\ FreeCalls # {}
    /\ LET c == MinOf(FreeCalls)
           s0 == [Cur EXCEPT !.dataSync.syncTimeout = FALSE]
           s1 == startCall(s0, c, "syncAllData", "none", "upsert")
           s2 == IF s1.dataSync.calls[c].pc = "done" THEN s1
                 ELSE [s1 EXCEPT !.dataSync.calls[c].updated = allData(s1)]
       IN  Commit(s2) /\ Track(s2)
    /\ UNCHANGED <<Env, Hist, Obs>>

\* syncDataType(dataType) up to its select
SyncDataType(type) ==
    /\ FreeCalls # {}
    /\ LET c == MinOf(FreeCalls)
           s1 == startCall(Cur, c, "syncDataType", type, "select")
           s2 == IF s1.dataSync.calls[c].pc = "done" THEN s1
                 ELSE [s1 EXCEPT !.dataSync.calls[c].localData =
                                     getLocalData(s1, localKey[type])]
       IN  Commit(s2) /\ Track(s2)
    /\ UNCHANGED <<Env, Hist, Obs>>

\* loadDataFromBackend() up to its select
LoadDataFromBackend ==
    /\ FreeCalls # {}
    /\ LET c == MinOf(FreeCalls)
           s1 == startCall(Cur, c, "loadDataFromBackend", "none", "select")
       IN  Commit(s1) /\ Track(s1)
    /\ UNCHANGED <<Env, Hist, Obs>>

\* the answer of a select of the user's row
DataSyncSelect(c, ok) ==
    /\ dataSync.calls[c].pc = "select"
    /\ LET call == dataSync.calls[c]
           row == userData[call.user]
           found == ok /\ row.exists
           s1 == IF call.op = "syncDataType"
                 THEN \* updatedData = existingData?.data || {}; the error of
                      \* the select is not looked at
                      [Cur EXCEPT !.dataSync.calls[c].pc = "upsert",
                                  !.dataSync.calls[c].updated =
                                      [(IF found THEN row.data ELSE NoFields)
                                          EXCEPT ![call.type] = stringify(call.localData)]]
                 ELSE IF found
                      THEN callDone(mergeData([Cur EXCEPT !.dataSync.lastMerge =
                                                   [ran |-> TRUE, pre |-> storage,
                                                    backendData |-> row.data]],
                                              row.data), c, "true")
                      ELSE callDone(Cur, c, "false")
       IN  Commit(s1) /\ Track(s1)
    /\ failures' = (failures \/ ~ok)
    /\ UNCHANGED <<Env, lastWritten, lastCall, lost, midFlight, crossed, Obs>>

\* upsert({user_id, data}) names no conflict target: the row is inserted
\* under a new id, which UNIQUE(user_id) allows for the user's first row
userRowAccepted(rows, user) == ~rows[user].exists

\* the answer of an upsert of the user's row
DataSyncUpsert(c, ok) ==
    /\ dataSync.calls[c].pc = "upsert"
    /\ LET call == dataSync.calls[c]
           done == ok /\ userRowAccepted(userData, call.user)
           s1 == IF done
                 THEN callDone([Cur EXCEPT !.userData[call.user] =
                                    [exists |-> TRUE, data |-> call.updated]],
                               c, "true")
                 ELSE callDone(Cur, c, "error")
       IN  Commit(s1) /\ Track(s1)
    /\ failures' = (failures \/ ~ok)
    /\ UNCHANGED <<Env, lastWritten, lastCall, lost, midFlight, crossed, Obs>>

(***************************************************************************)
(* SchoolPlatformAPI.storeUserData and getUserData over the same table.    *)
(* The application awaits each call before it makes the next.              *)
(***************************************************************************)
\* what a call returned: true, false, null, or an object
Returned(kind) == [kind |-> kind, obj |-> EmptyObject]

\* the call returns ret
apiReturn(s, ret) ==
    [s EXCEPT !.api.call = NoApiCall,
              !.api.log = Append(@, [op |-> s.api.call.op, key |-> s.api.call.key,
                                     value |-> s.api.call.value,
                                     user |-> s.api.call.user, ret |-> ret])]

\* a call up to `await this.getCurrentUser()`
ApiCall(op, key, value) ==
    /\ api.call.pc = "idle"
    /\ Len(api.log) < MaxApiCalls
    /\ LET s1 == [Cur EXCEPT !.api.call = [op |-> op, pc |-> "getUser", key |-> key,
                                           value |-> value, user |-> NoUser]]
       IN  Commit(s1) /\ Track(s1)
    /\ UNCHANGED <<Env, Hist, Obs>>

\* the answer of supabase.auth.getUser(): without a user storeUserData
\* returns false and getUserData null
ApiGetUser(ok) ==
    /\ api.call.pc = "getUser"
    /\ LET s1 == IF ok /\ authUser # NoUser
                 THEN [Cur EXCEPT !.api.call.user = authUser,
                                  !.api.call.pc = IF api.call.op = "storeUserData"
                                                  THEN "upsert" ELSE "select"]
                 ELSE apiReturn(Cur, Returned(IF api.call.op = "storeUserData"
                                              THEN "false" ELSE "null"))
       IN  Commit(s1) /\ Track(s1)
    /\ failures' = (failures \/ ~ok)
    /\ UNCHANGED <<Env, lastWritten, lastCall, lost, midFlight, crossed, Obs>>

\* the data column storeUserData writes: { [dataKey]: data }
storedData(row, key, value) == [NoFields EXCEPT ![key] = stringify(value)]

\* the answer of the upsert of storeUserData
ApiUpsert(ok) ==
    /\ api.call.pc = "upsert"
    /\ LET call == api.call
           done == ok /\ userRowAccepted(userData, call.user)
           s1 == IF done
                 THEN apiReturn([Cur EXCEPT !.userData[call.user] =
                                     [exists |-> TRUE,
                                      data |-> storedData(userData[call.user],
                                                          call.key, call.value)]],
                                Returned("true"))
                 ELSE apiReturn(Cur, Returned("false"))
       IN  Commit(s1) /\ Track(s1)
    /\ failures' = (failures \/ ~ok)
    /\ UNCHANGED <<Env, lastWritten, lastCall, lost, midFlight, crossed, Obs>>

\* the answer of the select of getUserData: .single() without a row is an
\* error; return data?.data?.[dataKey] || null
ApiSelect(ok) ==
    /\ api.call.pc = "select"
    /\ LET call == api.call
           row == userData[call.user]
           s1 == IF ok /\ row.exists /\ row.data[call.key].kind = "object"
                 THEN apiReturn(Cur, row.data[call.key])
                 ELSE apiReturn(Cur, Returned("null"))
       IN  Commit(s1) /\ Track(s1)
    /\ failures' = (failures \/ ~ok)
    /\ UNCHANGED <<Env, lastWritten, lastCall, lost, midFlight, crossed, Obs>>

(***************************************************************************)
(* Sign-out.  Setting window.location.href leaves the page: the next       *)
(* document starts with fresh script objects, the storages persist.        *)
(***************************************************************************)
redirect(s) ==
    [s EXCEPT !.page = "auth", !.cache = NoCache, !.currentUser = NoUser,
              !.isEnabled = FALSE, !.isInitialized = FALSE,
              !.syncInProgress = FALSE, !.autoSync = FALSE, !.shim = FALSE,
              !.listening = FALSE, !.syncTimeout = NoTimer,
              !.tasks = [t \in TaskIds |-> FreeTask],
              !.pushes = [p \in PushIds |-> FreePush],
              !.ds = NoDs]

\* AuthService.clearAllLocalData(): removes every localStorage key that
\* starts with 'schoolPlatform_' or 'supabase.', and clears sessionStorage
clearAllLocalData(s) ==
    [s EXCEPT !.local = [k \in LocalKeys |->
                            IF isManagedKey(k) THEN Absent ELSE s.local[k]],
              !.session = FALSE]

\* AuthService.handleAuthStateChange('SIGNED_OUT', null)
handleAuthStateChange(s) ==
    redirect([s EXCEPT !.currentUser = NoUser, !.session = FALSE])

\* the AuthGuard's onAuthStateChange callback for 'SIGNED_OUT'
authListener(s) ==
    redirect([s EXCEPT !.currentUser = NoUser, !.session = FALSE])

\* AuthService.signOut() up to its await of supabase.auth.signOut()
AuthServiceSignOut ==
    /\ page = "app"
    /\ out.pc = "idle"
    /\ LET s1 == [clearAllLocalData(Cur) EXCEPT
                     !.out = [pc |-> "as_signOut", via |-> "AuthService.signOut"]]
       IN  Commit(s1) /\ Track(s1)
    /\ UNCHANGED <<Env, Hist, Obs>>

\* supabase.auth.signOut() settles: the session ended (the SIGNED_OUT
\* callback has run), an error was returned, or the call threw
AuthServiceSignedOut(outcome) ==
    /\ out.pc = "as_signOut"
    /\ authUser' = IF outcome = "ok" THEN NoUser ELSE authUser
    /\ LET s1 == CASE outcome = "ok" -> handleAuthStateChange(Cur)
                   [] outcome = "error" -> Cur
                   [] outcome = "throw" -> clearAllLocalData(Cur)
           s2 == [redirect(s1) EXCEPT !.out.pc = "done"]
       IN  Commit(s2) /\ Track(s2)
    /\ UNCHANGED <<impl, remote, notes, nNotes, pageLoaded, nWrites, nAuthEvents,
                   nManual, Hist, Obs>>

\* AuthGuard.signOut() up to its await of supabaseClient.auth.signOut()
AuthGuardSignOut ==
    /\ page = "app"
    /\ out.pc = "idle"
    /\ LET s1 == [Cur EXCEPT
                     !.out = [pc |-> "ag_signOut", via |-> "AuthGuard.signOut"]]
       IN  Commit(s1) /\ Track(s1)
    /\ UNCHANGED <<Env, Hist, Obs>>

\* the finally block of AuthGuard.signOut()
AuthGuardSignedOut(ok) ==
    /\ out.pc = "ag_signOut"
    /\ authUser' = IF ok THEN NoUser ELSE authUser
    /\ LET s1 == IF ok THEN authListener(Cur) ELSE Cur
           s2 == [s1 EXCEPT !.currentUser = NoUser, !.session = FALSE,
                            !.local[SessionKey] = Absent]
           s3 == [redirect(s2) EXCEPT !.out.pc = "done"]
       IN  Commit(s3) /\ Track(s3)
    /\ UNCHANGED <<impl, remote, notes, nNotes, pageLoaded, nWrites, nAuthEvents,
                   nManual, Hist, Obs>>

\* the session ends without a signOut call of this page: the page's
\* listener receives SIGNED_OUT
SignedOutEvent(handler) ==
    /\ page = "app"
    /\ out.pc = "idle"
    /\ authUser # NoUser
    /\ authUser' = NoUser
    /\ LET s1 == IF handler = "AuthService" THEN handleAuthStateChange(Cur)
                 ELSE authListener(Cur)
           s2 == [s1 EXCEPT !.out = [pc |-> "done", via |-> "SIGNED_OUT"]]
       IN  Commit(s2) /\ Track(s2)
    /\ UNCHANGED <<impl, remote, notes, nNotes, pageLoaded, nWrites, nAuthEvents,
                   nManual, Hist, Obs>>

(***************************************************************************)
(* The next user signs in on the sign-in page (AuthService.signIn, then    *)
(* the SIGNED_IN branch of handleAuthStateChange) and a protected page is  *)
(* opened: a new document over the same localStorage.                      *)
(***************************************************************************)
SignIn(user) ==
    /\ page = "auth"
    /\ out.pc = "done"
    /\ authUser' = user
    /\ pageLoaded' = FALSE
    /\ LET s1 == [redirect(Cur) EXCEPT !.page = "app", !.currentUser = user,
                                       !.session = TRUE]
       IN  Commit(s1) /\ Track(s1)
    /\ UNCHANGED <<impl, remote, notes, nNotes, nWrites, nAuthEvents, nManual,
                   Hist, Obs>>

Perms2 == {<<storageKeys[1], storageKeys[2]>>, <<storageKeys[2], storageKeys[1]>>}

(***************************************************************************)
(* The startup merge on its own: the page load and what it starts.         *)
(***************************************************************************)
NextMerge ==
    \/ PageLoad
    \/ \E t \in TaskIds, ok \in BOOLEAN : InitGetUser(t, ok)
    \/ \E t \in TaskIds, ok \in BOOLEAN : RtGetUser(t, ok)
    \/ \E t \in TaskIds, ok \in BOOLEAN : LoadGetUser(t, ok)
    \/ \E t \in TaskIds, ok \in BOOLEAN, rows \in Perms2 : LoadSelect(t, ok, rows)
    \/ \E p \in PushIds, ok \in BOOLEAN : PushGetUser(p, ok)
    \/ \E p \in PushIds, ok \in BOOLEAN, n \in BOOLEAN : PushUpsert(p, ok, n)

SpecMerge == InitMerge /\ [][NextMerge]_vars

(***************************************************************************)
(* A session in which the application writes: startup, writes, the         *)
(* debounce timer and the pushes.                                          *)
(***************************************************************************)
NextPush ==
    \/ NextMerge
    \/ \E k \in Keys, v \in Vals : UserWrite(k, v)
    \/ TimerFire
    \/ \E p \in PushIds, ok \in BOOLEAN : AdapterSet(p, ok)

SpecPush == Init /\ [][NextPush]_vars

(***************************************************************************)
(* The whole session: also auth events, manual syncs and realtime changes. *)
(***************************************************************************)
Next ==
    \/ NextPush
    \/ \E note \in notes : RealtimeDeliver(note)
    \/ \E u \in {Owner, NoUser} : AuthStateChanged(u)
    \/ triggerManualSync

Spec == Init /\ [][Next]_vars

(***************************************************************************)
(* The application's use of the local facade and the ways a session ends.  *)
(***************************************************************************)
NextSignOut ==
    \/ \E k \in Keys \cup {ConfigKey}, d \in Datas : FacadeSet(k, d)
    \/ \E k \in Keys \cup {ConfigKey} : FacadeGet(k)
    \/ AuthServiceSignOut
    \/ \E o \in {"ok", "error", "throw"} : AuthServiceSignedOut(o)
    \/ AuthGuardSignOut
    \/ \E ok \in BOOLEAN : AuthGuardSignedOut(ok)
    \/ \E h \in {"AuthService", "AuthGuard"} : SignedOutEvent(h)

SpecSignOut == Init /\ [][NextSignOut]_vars

(***************************************************************************)
(* The application's use of the local facade: saves, reads, removals and   *)
(* clear(), next to direct writes of text that is not JSON.                *)
(***************************************************************************)
NextFacade ==
    \/ \E k \in Keys \cup {ConfigKey}, d \in Datas : FacadeSet(k, d)
    \/ \E k \in Keys \cup {ConfigKey} : FacadeGet(k)
    \/ \E k \in Keys \cup {ConfigKey} : FacadeRemove(k)
    \/ FacadeClear
    \/ \E k \in Keys : UserWrite(k, Malformed)
    \/ OtherWrite(ConfigKey, Malformed)

SpecFacade == Init /\ [][NextFacade]_vars

(***************************************************************************)
(* The application's use of the Supabase DataService on a page of the      *)
(* storage adapter, opened with or without a signed-in user, next to its   *)
(* use of the local facade.                                                *)
(***************************************************************************)
InitData ==
    /\ impl = "adapter"
    /\ authUser \in {Owner, NoUser}
    /\ local = NoLocal
    /\ remote \in {[u \in Users |-> NoData],
                   [u \in Users |-> [NoData EXCEPT ![storageKeys[1]] = "A"]]}
    /\ InitRest

NextData ==
    \/ \E op \in DataOps : \E arg \in DataArgs(op) : DataServiceCall(op, arg)
    \/ \E ok \in BOOLEAN : DataServiceAnswer(ok)
    \/ SignedInEvent(Owner)
    \/ \E k \in {storageKeys[1], ConfigKey} : FacadeSet(k, JSONparse("A"))
    \/ FacadeClear

SpecData == InitData /\ [][NextData]_vars

(***************************************************************************)
(* The id generator applied to lists of up to MaxIds ids as the            *)
(* application stores them: padded, unpadded, or not numeric.              *)
(***************************************************************************)
IdTexts == {<<0, 0>>, <<0, 1>>, <<0, 2>>, <<1>>, <<Letter, 1>>}

IdLists == UNION {[1..n -> IdTexts] : n \in 0..MaxIds}

InitIds ==
    /\ impl = "service"
    /\ authUser = Owner
    /\ local = NoLocal
    /\ remote = [u \in Users |-> NoData]
    /\ InitCore
    /\ storage = NoStorage
    /\ userData = NoUserData
    /\ dataSync = NoDataSync
    /\ api = NoApi
    /\ ids \in {[NoIds EXCEPT !.existingIds = list] : list \in IdLists}

NextIds == GenerateNextStudentId

SpecIds == InitIds /\ [][NextIds]_vars

(***************************************************************************)
(* A page that uses DataSync: writes through autoSync and syncs of single  *)
(* data types, from local storage and a remote row of an earlier session.  *)
(***************************************************************************)
InitDataSync ==
    /\ impl = "service"
    /\ authUser \in {Owner, NoUser}
    /\ local = NoLocal
    /\ remote = [u \in Users |-> NoData]
    /\ InitCore
    /\ ids = NoIds
    /\ dataSync = NoDataSync
    /\ api = NoApi
    /\ storage \in {NoStorage,
                    [NoStorage EXCEPT ![storageKeys[1]] = stringify(ObjectX)]}
    /\ userData \in {NoUserData,
                     [NoUserData EXCEPT ![Owner] =
                         [exists |-> TRUE,
                          data |-> [NoFields EXCEPT !["studentProfiles"] =
                                        stringify(ObjectY)]]]}

NextDataSync ==
    \/ \E ok \in BOOLEAN : DataSyncInit(ok)
    \/ \E k \in Keys, o \in {ObjectX, ObjectY} : AutoSync(k, o)
    \/ DataSyncTimer
    \/ \E t \in DataTypes : SyncDataType(t)
    \/ \E c \in CallIds, ok \in BOOLEAN : DataSyncSelect(c, ok)
    \/ \E c \in CallIds, ok \in BOOLEAN : DataSyncUpsert(c, ok)

SpecDataSync == InitDataSync /\ [][NextDataSync]_vars

(***************************************************************************)
(* A page that loads the user's row and merges it into any local storage.  *)
(***************************************************************************)
InitMergeData ==
    /\ impl = "service"
    /\ authUser \in {Owner, NoUser}
    /\ local = NoLocal
    /\ remote = [u \in Users |-> NoData]
    /\ InitCore
    /\ ids = NoIds
    /\ dataSync = NoDataSync
    /\ api = NoApi
    /\ storage \in [Keys -> {None, MalformedText, stringify(EmptyObject),
                             stringify(ObjectX),
                             stringify([e \in EntryNames |-> "x"])}]
    /\ userData \in {[NoUserData EXCEPT ![Owner] = row] :
                        row \in {NoRow} \cup
                            {[exists |-> TRUE, data |-> d] :
                                d \in [DataTypes -> {None, stringify(EmptyObject),
                                                     stringify(ObjectY),
                                                     stringify([e \in EntryNames |-> "y"])}]}}

NextMergeData ==
    \/ \E ok \in BOOLEAN : DataSyncInit(ok)
    \/ LoadDataFromBackend
    \/ \E c \in CallIds, ok \in BOOLEAN : DataSyncSelect(c, ok)

SpecMergeData == InitMergeData /\ [][NextMergeData]_vars

(***************************************************************************)
(* A page that stores and reads the user's data through the API.           *)
(***************************************************************************)
InitUserData ==
    /\ impl = "service"
    /\ authUser \in {Owner, NoUser}
    /\ local = NoLocal
    /\ remote = [u \in Users |-> NoData]
    /\ InitCore
    /\ ids = NoIds
    /\ storage = NoStorage
    /\ dataSync = NoDataSync
    /\ api = NoApi
    /\ userData \in {NoUserData,
                     [NoUserData EXCEPT ![Owner] =
                         [exists |-> TRUE,
                          data |-> [NoFields EXCEPT !["studentProfiles"] =
                                        stringify(ObjectY)]]]}

NextUserData ==
    \/ \E k \in DataTypes, v \in {ObjectX, ObjectY} : ApiCall("storeUserData", k, v)
    \/ \E k \in DataTypes : ApiCall("getUserData", k, EmptyObject)
    \/ \E ok \in BOOLEAN : ApiGetUser(ok)
    \/ \E ok \in BOOLEAN : ApiUpsert(ok)
    \/ \E ok \in BOOLEAN : ApiSelect(ok)

SpecUserData == InitUserData /\ [][NextUserData]_vars

(***************************************************************************)
(* The local facade with a backup that is restored at once.                *)
(***************************************************************************)
NextBackup ==
    \/ NextFacade
    \/ FacadeImportExport

SpecBackup == Init /\ [][NextBackup]_vars

(***************************************************************************)
(* The local facade used while the startup merge of the service runs.      *)
(***************************************************************************)
NextCoherence ==
    \/ NextFacade
    \/ NextMerge

SpecCoherence == Init /\ [][NextCoherence]_vars

(***************************************************************************)
(* A session in which the application also asks for a full sync.           *)
(***************************************************************************)
NextFull ==
    \/ NextPush
    \/ FullSync

SpecFull == Init /\ [][NextFull]_vars

(***************************************************************************)
(* A session with change notifications and no auth events.                 *)
(***************************************************************************)
\* another device of the same user changes a row; the channel subscribed by
\* setupRealtimeSync is sent the change
OtherDevice(key, value) ==
    /\ authUser # NoUser
    /\ subscriptions > 0
    /\ nNotes < MaxNotes
    /\ nNotes' = nNotes + 1
    /\ remote' = [remote EXCEPT ![authUser][key] = value]
    /\ notes' = notes \cup {[key |-> key, value |-> value]}
    /\ Commit(Cur) /\ Track(Cur)
    /\ UNCHANGED <<impl, authUser, pageLoaded, nWrites, nAuthEvents, nManual,
                   Hist, Obs>>

NextRealtime ==
    \/ NextPush
    \/ \E note \in notes : RealtimeDeliver(note)
    \/ \E k \in Keys : OtherDevice(k, "B")

SpecRealtime == Init /\ [][NextRealtime]_vars

(***************************************************************************)
(* A session in which the application also writes keys outside             *)
(* storageKeys and removes keys.                                           *)
(***************************************************************************)
NextKeys ==
    \/ NextPush
    \/ \E k \in LocalKeys \ Keys : OtherWrite(k, "A")
    \/ \E k \in Keys : RemoveItem(k)
    \/ \E k \in Keys : FacadeRemove(k)

SpecKeys == Init /\ [][NextKeys]_vars

(***************************************************************************)
(* The states of the service: a page opened with or without a signed-in    *)
(* user, its startup, and auth events.                                     *)
(***************************************************************************)
InitAuth ==
    /\ impl \in {"service", "loader"}
    /\ authUser \in {Owner, NoUser}
    /\ local \in {NoLocal, [NoLocal EXCEPT ![storageKeys[2]] = "B"]}
    /\ remote \in {[u \in Users |-> NoData],
                   [u \in Users |-> [NoData EXCEPT ![storageKeys[1]] = "A"]]}
    /\ InitRest

NextAuth ==
    \/ NextMerge
    \/ \E u \in {Owner, NoUser} : AuthStateChanged(u)

SpecAuth == InitAuth /\ [][NextAuth]_vars

\* the same session with the manual sync of the PWAManager as well
NextReload ==
    \/ NextAuth
    \/ triggerManualSync

SpecReload == InitAuth /\ [][NextReload]_vars

(***************************************************************************)
(* A shared device: the first user works and signs out, the next user      *)
(* signs in and the sync service of the new page starts.  The first user   *)
(* writes only the value "A"; the next user's remote rows hold only "B".   *)
(***************************************************************************)
NextUser == "u2"

InitShared ==
    /\ impl \in {"service", "loader"}
    /\ authUser = Owner
    /\ local = NoLocal
    /\ remote \in {[u \in Users |-> NoData],
                   [u \in Users |-> IF u = NextUser
                                    THEN [NoData EXCEPT ![storageKeys[1]] = "B"]
                                    ELSE NoData]}
    /\ InitRest

NextShared ==
    \/ NextMerge
    \/ TimerFire
    \/ \E k \in Keys : authUser = Owner /\ page = "app" /\ UserWrite(k, "A")
    \/ AuthServiceSignOut
    \/ \E o \in {"ok", "error", "throw"} : AuthServiceSignedOut(o)
    \/ AuthGuardSignOut
    \/ \E ok \in BOOLEAN : AuthGuardSignedOut(ok)
    \/ \E h \in {"AuthService", "AuthGuard"} : SignedOutEvent(h)
    \/ SignIn(NextUser)

SpecShared == InitShared /\ [][NextShared]_vars

(***************************************************************************)
(* Properties of the startup merge.                                        *)
(***************************************************************************)
\* a value that counts as data: not absent, not the empty object or list
NonEmpty(x) == ~IsEmptyData(x)

Quiet ==
    /\ syncTimeout = NoTimer
    /\ \A p \in PushIds : pushes[p].pc = "free"
    /\ \A t \in TaskIds : tasks[t].pc = "free"

\* C1: when the startup merge has completed, every key that held differing
\* non-empty values locally and remotely before it holds the pre-merge
\* remote value locally (remote wins).
C1_RemoteWins ==
    (merged.ran /\ merged.ok) =>
        \A k \in Keys :
            (NonEmpty(merged.preLocal[k]) /\ NonEmpty(merged.data[k])
                /\ merged.preLocal[k] # merged.data[k])
            => local[k] = merged.data[k]

C1_Witness ==
    /\ merged.ran /\ merged.ok /\ impl = "service"
    /\ \E k \in Keys :
           /\ NonEmpty(merged.preLocal[k]) /\ NonEmpty(merged.data[k])
           /\ merged.preLocal[k] # merged.data[k]
           /\ local[k] = merged.data[k]

\* C2 (as claimed): when the startup merge has completed and no remote call
\* failed, every key with a non-empty local value and no remote value holds
\* the local value remotely.
C2_LocalPushed ==
    (merged.ran /\ Quiet /\ ~failures) =>
        \A k \in Keys :
            (NonEmpty(merged.preLocal[k]) /\ IsEmptyData(merged.data[k]))
            => remote[merged.user][k] = merged.preLocal[k]

\* C3: when the startup merge has completed, every key with a non-empty
\* remote value and no local value before it reads the remote value locally.
C3_RemoteAdopted ==
    (merged.ran /\ merged.ok) =>
        \A k \in Keys :
            (NonEmpty(merged.data[k]) /\ IsEmptyData(merged.preLocal[k]))
            => local[k] = merged.data[k]

C3_Witness ==
    /\ merged.ran /\ merged.ok /\ impl = "service"
    /\ localDataExists(merged.preLocal)
    /\ \E k \in Keys :
           /\ NonEmpty(merged.data[k]) /\ merged.preLocal[k] = Absent
           /\ local[k] = merged.data[k]

(***************************************************************************)
(* Properties of the pushes.                                               *)
(***************************************************************************)
\* C4 (as claimed): a value the application wrote, whose push failed or was
\* refused, stays the local value of its key until the application writes
\* the key again.
C4_NoLocalWriteLost ==
    \A k \in lost : local[k] = lastWritten[k]

\* C5 (as claimed): a push that fails resolves to false, throws nothing, and
\* leaves the local value of its key as it was.
C5_FailedPushKeepsLocal ==
    settled.error => (settled.result = "false" /\ settled.kept)

\* C5 (amended): a push that fails throws nothing and leaves the local value
\* of its key as it was; the SyncService's syncToSupabase resolves to false,
\* the StorageAdapter's syncToSupabase resolves to no value.
C5_FailedPushContained ==
    settled.error =>
        /\ settled.kept
        /\ settled.result = IF impl = "adapter" THEN "undefined" ELSE "false"

C5_Witness ==
    /\ settled.error /\ settled.result = "false"
    /\ settled.key \in lost
    /\ local[settled.key] = settled.data
    /\ lastWritten[settled.key] = settled.data

\* C6: a run of N >= 1 writes to one key, each made while the timer of the
\* previous one is pending, leaves one pending timer that carries the last
\* written value, and the single syncToSupabase call made when it fires
\* carries that value.
C6_DebounceCoalesces ==
    /\ burst.n >= 1 => syncTimeout = [key |-> burst.key,
                                      value |-> lastWritten[burst.key]]
    /\ lastCall.n >= 1 => lastCall.value = lastCall.want

C6_Witness ==
    /\ lastCall.n >= 2
    /\ lastCall.first # lastCall.value
    /\ lastCall.value = lastCall.want
    /\ syncTimeout = NoTimer

\* C7 (as claimed): a pending push for key A survives a write to another
\* key: once the session is quiet and nothing failed, remote holds the last
\* written value of A.
C7_PerKeyDebounce ==
    (Quiet /\ ~failures /\ midFlight = {}) =>
        \A a \in crossed : remote[authUser][a] = lastWritten[a]

\* C8 (as claimed): no two syncToSupabase pushes for one key are in flight at
\* once.
C8_OnePushPerKey ==
    \A k \in Keys :
        Cardinality({p \in InFlight(k) : pushes[p].pc \in {"getUser", "upsert"}}) <= 1

\* C9 (as claimed): a write made while a push for its key is in flight is
\* followed up: once the session is quiet and nothing failed, remote holds
\* the last written value of the key.
C9_FollowUpPush ==
    (Quiet /\ ~failures) =>
        \A k \in midFlight : remote[authUser][k] = lastWritten[k]

(***************************************************************************)
(* C10: after sign-out, by whichever path, every managed key is absent     *)
(* from local storage and a read of it through the local facade returns    *)
(* the key's default.                                                      *)
(***************************************************************************)
C10_SignOutClears ==
    out.pc = "done" =>
        \A k \in Keys \cup {ConfigKey} :
            /\ local[k] = Absent
            /\ get(Cur, k, facadeDefault(k)).ret = facadeDefault(k)

(***************************************************************************)
(* C11 (as claimed): once the next user's startup merge has run and the    *)
(* session is quiet, neither local storage nor the next user's remote rows *)
(* hold a value the first user wrote.                                      *)
(***************************************************************************)
C11_OwnerIsolation ==
    (merged.ran /\ merged.user = NextUser /\ authUser = NextUser /\ Quiet) =>
        \A k \in Keys : local[k] # "A" /\ remote[NextUser][k] # "A"

(***************************************************************************)
(* Properties of the states of the service.                                *)
(***************************************************************************)
\* C12 (as claimed): when a registered listener receives an authStateChanged
\* event that reports a sign-out while the service is initialized and
\* enabled, the service is disabled, at once or by a user lookup that the
\* listener's run of initialize() starts.
C12_SignOutDisables ==
    [][(nAuthEvents' = nAuthEvents + 1 /\ authUser' = NoUser
            /\ (impl = "service" \/ listening)
            /\ isInitialized /\ isEnabled)
        => \/ ~isEnabled'
           \/ \E t \in TaskIds : tasks'[t].kind = "auth"
                                  /\ tasks'[t].pc = "init_getUser"]_vars

\* C13 (as claimed): when a registered listener receives an authStateChanged
\* event that reports a signed-in user while the service is initialized and
\* disabled, its run of initialize() looks the user up again.
C13_ReinitEnables ==
    [][(nAuthEvents' = nAuthEvents + 1 /\ authUser' # NoUser
            /\ (impl = "service" \/ listening)
            /\ isInitialized /\ ~isEnabled)
        => \E t \in TaskIds : tasks'[t].kind = "auth"
                              /\ tasks'[t].pc = "init_getUser"]_vars

\* C14: the service is enabled only after a user lookup of initialize()
\* that returned a user without throwing; after a lookup that threw or
\* returned no user the service is disabled and initialized.
C14_EnabledOnlyByGate ==
    /\ isEnabled => (lastInit.ran /\ lastInit.ok /\ lastInit.user # NoUser)
    /\ (lastInit.ran /\ ~(lastInit.ok /\ lastInit.user # NoUser))
           => (~isEnabled /\ isInitialized)

C14_Witness ==
    /\ lastInit.ran /\ ~lastInit.ok /\ lastInit.user # NoUser
    /\ ~isEnabled /\ isInitialized

(***************************************************************************)
(* C15: a write to a local storage key that is not one of the managed      *)
(* keys (class records, student profiles, teacher profile, attendance,     *)
(* per-class assessment configuration) starts no remote operation: in the  *)
(* step of the write no push is started, no timer armed, no set operation  *)
(* of window.dataService invoked and no remote row changed.                *)
(***************************************************************************)
Unmanaged == {SessionKey, SettingsKey}

Mirroring == <<remote, pushes, syncTimeout, dsLast>>

C15_UnmanagedNotMirrored ==
    [][(nWrites' = nWrites + 1 /\ lastOp'.op = "setItem"
            /\ lastOp'.key \in Unmanaged)
        => Mirroring' = Mirroring]_vars

C15_Witness ==
    /\ lastOp.op = "setItem" /\ lastOp.key = SettingsKey
    /\ lastOp.user # NoUser /\ (lastOp.shim \/ lastOp.autoSync)
    /\ local[SettingsKey] = lastOp.value

(***************************************************************************)
(* C16: with the StorageAdapter installed and a user signed in, a          *)
(* setItem on a recognized key invokes the corresponding set operation of  *)
(* window.dataService with the JSON-decoded value (and, for an assessment  *)
(* configuration, the class name taken from the key's suffix).             *)
(***************************************************************************)
C16_AdapterMirrors ==
    (lastOp.op = "setItem" /\ lastOp.shim /\ lastOp.user # NoUser
        /\ lastOp.key \in Keys \cup {ConfigKey})
    => dsLast = [op |-> adapterRoute(lastOp.key),
                 name |-> className(lastOp.key),
                 arg |-> JSONparse(lastOp.value)]

(***************************************************************************)
(* C17: handling a write to a managed key starts no remote operation by    *)
(* itself: the step of the write leaves the pushes in flight and the       *)
(* operations invoked on window.dataService as they were and at most arms  *)
(* the timer.                                                              *)
(***************************************************************************)
C17_WriteOnlySchedules ==
    [][(nWrites' = nWrites + 1 /\ lastOp'.op = "setItem"
            /\ lastOp'.key \in Keys \cup {ConfigKey})
        => (pushes' = pushes /\ dsLast' = dsLast)]_vars

(***************************************************************************)
(* C18: removing a managed key locally, by localStorage.removeItem or by   *)
(* DataService.remove, removes the local copy only: no remote row changes, *)
(* no push is started or scheduled and no operation of window.dataService  *)
(* is invoked.                                                             *)
(***************************************************************************)
C18_RemoveIsLocal ==
    [][(nWrites' = nWrites + 1 /\ lastOp'.op \in {"removeItem", "remove"})
        => (local'[lastOp'.key] = Absent /\ Mirroring' = Mirroring)]_vars

C18_Witness ==
    /\ lastOp.op \in {"removeItem", "remove"}
    /\ authUser # NoUser /\ lastOp.user = authUser
    /\ (lastOp.shim \/ lastOp.autoSync)
    /\ local[lastOp.key] = Absent
    /\ remote[authUser][lastOp.key] # Absent

(***************************************************************************)
(* C19: a delivered change notification for a key is suppressed exactly    *)
(* when a local push of that same key is in flight: with no push of the    *)
(* key in flight its value is applied to localStorage, with one in flight  *)
(* localStorage is left as it is.                                          *)
(***************************************************************************)
C19_SuppressedIffSameKey ==
    [][\A note \in notes : (notes' = notes \ {note}) =>
            /\ InFlight(note.key) = {} => local'[note.key] = note.value
            /\ InFlight(note.key) # {} => local' = local]_vars

(***************************************************************************)
(* C20: applying a change notification does not cause a push: the step     *)
(* that delivers a notification neither starts a push nor arms the timer.  *)
(***************************************************************************)
C20_ApplySchedulesNoPush ==
    [][(\E note \in notes : notes' = notes \ {note})
        => (pushes' = pushes /\ syncTimeout' = syncTimeout)]_vars

(***************************************************************************)
(* C21: a delivered change notification that is applied (the service has   *)
(* no push in progress and the row has a key and a value) overwrites the   *)
(* local copy of the notified key with the notified value and dispatches   *)
(* one 'dataLoaded' event.                                                 *)
(***************************************************************************)
C21_AppliedEmitsDataLoaded ==
    [][\A note \in notes :
          (notes' = notes \ {note} /\ ~syncInProgress
              /\ Truthy(note.key) /\ Truthy(note.value))
          => (local'[note.key] = note.value
                 /\ dataLoaded' = dataLoaded + 1)]_vars

(***************************************************************************)
(* C22: when fullSync() returns true, every key of storageKeys that had a  *)
(* non-empty local value when it was called has that value as the owner's  *)
(* remote value.                                                           *)
(***************************************************************************)
C22_FullSyncPushesAll ==
    [][(full'.ran /\ ~full.ran /\ full'.result)
        => \A k \in Keys :
              NonEmpty(full'.preLocal[k])
                  => remote'[authUser][k] = full'.preLocal[k]]_vars

(***************************************************************************)
(* C23: a startup merge that returned true and changed local storage (a    *)
(* remote value adopted or written over a local one) or the owner's remote *)
(* rows (a local value uploaded) has dispatched 'dataLoaded'.              *)
(***************************************************************************)
MergeChangedLocal == \E k \in Keys : local[k] # merged.preLocal[k]

MergeChangedRemote == \E k \in Keys : remote[merged.user][k] # merged.data[k]

C23_MergeEmitsDataLoaded ==
    (merged.ran /\ merged.ok /\ (MergeChangedLocal \/ MergeChangedRemote))
    => dataLoaded >= 1

C23_Witness ==
    /\ merged.ran /\ merged.ok /\ dataLoaded >= 1
    /\ MergeChangedRemote
    /\ \E k \in Keys : merged.preLocal[k] = Absent /\ local[k] = merged.data[k]
                        /\ local[k] # Absent

(***************************************************************************)
(* C24: in a session that started with remote rows and empty local         *)
(* storage, once the startup merge has returned true 'dataLoaded' has been *)
(* dispatched exactly once, whatever authStateChanged events and manual    *)
(* syncs the session has seen.                                             *)
(***************************************************************************)
C24_MergeOncePerSession ==
    (merged.ran /\ merged.ok /\ merged.preLocal = NoLocal
        /\ hasServerData(merged.data))
    => dataLoaded = 1

C26_AbsentReadsEmpty ==
    (facade.last.op = "get" /\ facade.last.stored \in {Absent, Malformed})
    => facade.last.data = JSONparse(EmptyObj)

(***************************************************************************)
(* C29: the table holds one row per (owner, key) at most, and a push to a  *)
(* pair that has a row replaces the row's value: when no request has       *)
(* failed for reasons of the network or the service, an answered upsert    *)
(* leaves the pushed value in the row of its pair.                         *)
(***************************************************************************)
C29_PushReplacesRow ==
    [][\A p \in PushIds :
          (pushes[p].pc = "upsert" /\ pushes'[p] # pushes[p] /\ ~failures')
          => remote'[pushes[p].user][pushes[p].key] = pushes[p].data]_vars

\* the facade's clear() has run in this step
LocalClearDone == nWrites' # nWrites /\ facade'.last.op = "clear"

\* the Supabase DataService's clear() has returned in this step
RemoteClearDone ==
    dsOut.op = "clear" /\ dsOut.outcome = "pending" /\ dsOut'.outcome = "returned"

\* C27: once the 'clear all data' operation of either DataService has
\* completed for a signed-in owner, every managed key, the per-class
\* assessment config key included, is absent from local storage and the
\* owner has no remote rows, in the user_data table or in the tables of the
\* Supabase DataService.
C27_ClearRemovesBoth ==
    [][((LocalClearDone \/ RemoteClearDone) /\ currentUser # NoUser)
        => /\ \A k \in Keys \cup {ConfigKey} : local'[k] = Absent
           /\ remote'[currentUser] = NoData
           /\ tables'[currentUser] = NoTables[currentUser]]_vars

\* C28: importData called by a signed-in owner with the aggregate that
\* exportData returns for the owner's tables completes without error,
\* unless a request of it was answered with a failure, and leaves the
\* tables such that exportData returns that aggregate again.
C28_ImportOfExport ==
    (/\ dsOut.op = "importData"
     /\ dsOut.user # NoUser
     /\ dsOut.outcome \notin {"pending", "error"}
     /\ dsOut.arg = exportData(Cur, dsOut.user))
        => dsOut.outcome = "returned"

\* C30: every operation of the Supabase DataService called while no user
\* is signed in sends no remote request and ends with the authentication
\* error thrown to its caller.
C30_NoUserFailsWithAuthError ==
    (dsOut.n > 0 /\ dsOut.user = NoUser /\ dsOut.outcome # "pending")
        => (dsOut.outcome = "authError" /\ dsOut.requests = 0)

\* C31: when the fetch of the startup merge fails (no user from getUser, or
\* the select of the rows fails), the step that ends loadFromSupabase
\* leaves local storage as it was, resolves to false, and the service is
\* enabled before and after it.
C31_FetchFailureKeepsLocal ==
    [][(merged'.ran /\ ~merged.ran /\ ~merged'.fetched)
        => (local' = local /\ ~merged'.ok /\ isEnabled /\ isEnabled')]_vars

\* C31 witness: the select of the startup merge failed for a signed-in
\* user whose remote rows hold data that local storage lacks; local
\* storage still lacks it and the service is enabled.
C31_Witness ==
    /\ merged.ran /\ ~merged.fetched /\ ~merged.ok
    /\ merged.user # NoUser
    /\ isEnabled
    /\ \E k \in Keys : NonEmpty(remote[merged.user][k]) /\ local[k] = Absent

\* the numeric values of the entries of a list of ids
NumericValues(list) == {parseInt(list[i]) : i \in 1..Len(list)} \ {NaN}

\* the smallest non-negative integer outside a finite set of integers
Smallest(S) == CHOOSE n \in 0..Cardinality(S) : n \notin S /\ \A m \in 0..(n - 1) : m \in S

\* C32: generateNextStudentId(existingIds) returns the smallest
\* non-negative integer that is not the numeric value of an entry of
\* existingIds, written with at least two digits ('00' for the empty list),
\* and what it returns is not an entry of existingIds.
C32_NextIdIsSmallestFree ==
    ids.called =>
        /\ ids.nextId = padStart(toString(Smallest(NumericValues(ids.existingIds))), 2)
        /\ \A i \in 1..Len(ids.existingIds) : ids.existingIds[i] # ids.nextId

\* C33: however calls of initialize() overlap, the service creates its
\* real-time subscription at most once.
C33_InitSideEffectsOnce == impl = "service" => subscriptions <= 1

\* C34: every call of DataSync.autoSync(dataType, newData) leaves newData
\* stored under dataType in local storage, with sync enabled or not.
C34_AutoSyncWritesLocal ==
    [][dataSync'.nAuto # dataSync.nAuto
        => storage'[dataSync'.lastAuto.key] = stringify(dataSync'.lastAuto.value)]_vars

\* C35: a get(K) of the local facade returns the parsed content that
\* local storage holds under K at the time of the call, or the default of
\* K when the key is absent.
C35_CacheCoherent ==
    (facade.last.op = "get" /\ facade.last.stored \in Vals \cup {Absent})
        => facade.last.data = IF facade.last.stored = Absent
                              THEN facadeDefault(facade.last.key)
                              ELSE JSONparse(facade.last.stored)

\* C36: when two syncDataType calls of one user for different data types
\* have both returned and no request was answered with a failure, the
\* user's remote row holds, for both data types, the local value each call
\* read.
C36_BothSyncsTakeEffect ==
    \A c1, c2 \in CallIds :
        LET a == dataSync.calls[c1]
            b == dataSync.calls[c2]
        IN  (/\ a.op = "syncDataType" /\ b.op = "syncDataType"
             /\ a.type # b.type /\ a.user = b.user
             /\ a.pc = "done" /\ b.pc = "done"
             /\ a.result # "skipped" /\ b.result # "skipped"
             /\ ~failures)
            => /\ userData[a.user].data[a.type] = stringify(a.localData)
               /\ userData[a.user].data[b.type] = stringify(b.localData)

\* C37: when a user's storeUserData(k1, v1) is followed by the user's
\* storeUserData(k2, v2) with k2 different from k1 and then by a
\* getUserData(k), and no request was answered with a failure, the get
\* returns v1 for k = k1 and v2 for k = k2.
C37_StoreChangesOnlyItsKey ==
    \A i \in 1..(Len(api.log) - 2) :
        LET a == api.log[i]
            b == api.log[i + 1]
            g == api.log[i + 2]
        IN  (/\ a.op = "storeUserData" /\ b.op = "storeUserData"
             /\ g.op = "getUserData"
             /\ a.key # b.key /\ g.key \in {a.key, b.key}
             /\ a.user # NoUser /\ b.user = a.user /\ g.user = a.user
             /\ ~failures)
            => g.ret = stringify(IF g.key = a.key THEN a.value ELSE b.value)

\* the entries of the value local storage held under a key before the
\* last mergeData
LocalBefore(key) ==
    IF dataSync.lastMerge.pre[key].kind = "object"
    THEN dataSync.lastMerge.pre[key].obj ELSE EmptyObject

\* C38: after mergeData(backendData), for each data type that backendData
\* holds, every top-level entry of the backend value is in the local value
\* with the backend's content and every entry only the local value had is
\* still there with its content; the local text of a data type that
\* backendData lacks is what it was.
C38_MergeKeepsBoth ==
    dataSync.lastMerge.ran =>
        \A t \in DataTypes :
            LET backend == dataSync.lastMerge.backendData[t]
                key == localKey[t]
            IN  IF backend.kind = "object"
                THEN /\ storage[key].kind = "object"
                     /\ \A e \in EntryNames :
                            storage[key].obj[e] =
                                IF backend.obj[e] # Missing THEN backend.obj[e]
                                ELSE LocalBefore(key)[e]
                ELSE storage[key] = dataSync.lastMerge.pre[key]

\* C38 witness: a merge in which, for one data type, the backend value and
\* the local value disagree on an entry and the local value has an entry
\* the backend value lacks; the local value now has the backend's content
\* for the first and its own for the second.
C38_Witness ==
    /\ dataSync.lastMerge.ran
    /\ \E t \in DataTypes, e1, e2 \in EntryNames :
          LET backend == dataSync.lastMerge.backendData[t]
              before == LocalBefore(localKey[t])
              now == storage[localKey[t]].obj
          IN  /\ backend.kind = "object"
              /\ backend.obj[e1] # Missing /\ before[e1] # Missing
              /\ backend.obj[e1] # before[e1] /\ now[e1] = backend.obj[e1]
              /\ backend.obj[e2] = Missing /\ before[e2] # Missing
              /\ now[e2] = before[e2]

\* what the getter of a managed key returns for a cache and a local storage
Getter(c, l, key) == get([cache |-> c, local |-> l], key, facadeDefault(key)).ret

\* C39: importData(exportData()) of the local DataService leaves, for every
\* managed key, the key present in local storage exactly if it was, and
\* its getter returning what it returned before.
C39_ImportOfExportIsIdentity ==
    [][(nWrites' # nWrites /\ facade'.last.op = "import")
        => \A k \in Keys :
              /\ (local'[k] = Absent) = (local[k] = Absent)
              /\ Getter(cache', local', k) = Getter(cache, local, k)]_vars

(***************************************************************************)
(* A session of the SyncService in which every request it sends is         *)
(* answered: startup, writes, the debounce timer and the pushes.           *)
(* supabase-js settles the promises of getUser() and upsert()     *)
(* when the response or the network error arrives, so the continuation of  *)
(* a suspended syncToSupabase is run once it is enabled.                   *)
(***************************************************************************)
InitFlag == Init /\ impl = "service"

NextFlag ==
    \/ NextMerge
    \/ \E k \in Keys : UserWrite(k, "B")
    \/ TimerFire

SpecFlag ==
    /\ InitFlag
    /\ [][NextFlag]_vars
    /\ \A p \in PushIds :
          /\ WF_vars(\E ok \in BOOLEAN : PushGetUser(p, ok))
          /\ WF_vars(\E ok \in BOOLEAN, n \in BOOLEAN : PushUpsert(p, ok, n))

\* C40: syncInProgress of the SyncService is true only while one of its
\* pushes is in flight; a debounced call that syncToSupabase rejects while
\* the flag is set starts no push and leaves the flag set; and whenever the
\* flag is set it is later reset, whether the push succeeds, finds no user
\* or has its upsert fail.
C40_FlagFollowsPush ==
    /\ [](syncInProgress => \E p \in PushIds : pushes[p].pc # "free")
    /\ [][(syncInProgress /\ lastCall' # lastCall /\ ~lastCall'.accepted)
            => (syncInProgress' /\ pushes' = pushes)]_vars
    /\ (syncInProgress ~> ~syncInProgress)

\* C40 witness: the enabled service rejected a debounced call, the push
\* that was in flight has since settled on a failure path, and the flag is
\* false again with no push in flight.
C40_Witness ==
    /\ impl = "service" /\ isEnabled
    /\ lastCall # NoCall /\ ~lastCall.accepted
    /\ settled.result = "false" /\ settled.error
    /\ ~syncInProgress
    /\ \A p \in PushIds : pushes[p].pc = "free"
====
